---- MODULE Spec2Model ----
(***************************************************************************)
(* A model of the message classification pipeline of telegram-job-scraper  *)
(* (src/src/filters.py) and of the salary extractor it uses                *)
(* (src/src/salary_extractor.py).                                          *)
(*                                                                         *)
(* Texts are character strings.  The string operators of TLC (Len, SubSeq, *)
(* \o on strings) give Python's str operations character by character:    *)
(* `k in t` is Contains(t, k), t.find(k) is find(t, k), t.lower() is       *)
(* lower(t), and the regular expressions of the source are matched by a    *)
(* backtracking matcher (Ends, MatchAt, finditer) over pattern trees that  *)
(* are written down from the source's pattern strings.                     *)
(*                                                                         *)
(* The module's character set is Latin-1, so the Cyrillic entries of the   *)
(* source's keyword lists, which no text of this character set can         *)
(* contain, are left out of the lists below.                               *)
(***************************************************************************)
EXTENDS Integers, Sequences, FiniteSets, TLC

VARIABLES
    flt,            \* the filter instance: its class and its criteria
    msg,            \* the message handed to filter_message
    now,            \* the clock, in hours
    pc,             \* the position of filter_message in its chain of gates
    text,           \* filter_message's local `text`
    trace,          \* the gates evaluated so far, in order of evaluation
    result,         \* "pending", "accept", "reject", or "escaped" (an exception left the call)
    caught,         \* TRUE once an except clause of the filter has handled an error
    extractor_calls,\* number of calls of salary_extractor.extract_salaries
    utcoffset,      \* the local time zone, in hours from UTC
    call,           \* the pure-function call of the function specifications
    out             \* and its result

vars == <<flt, msg, now, pc, text, trace, result, caught, extractor_calls, utcoffset, call, out>>

----------------------------------------------------------------------------
(* Python str *)

UpperChars == "ABCDEFGHIJKLMNOPQRSTUVWXYZ"
LowerChars == "abcdefghijklmnopqrstuvwxyz"

CharAt(s, i) == SubSeq(s, i, i)

LowerChar(c) ==
    IF \E i \in 1..Len(UpperChars) : CharAt(UpperChars, i) = c
    THEN LET i == CHOOSE j \in 1..Len(UpperChars) : CharAt(UpperChars, j) = c
         IN CharAt(LowerChars, i)
    ELSE c

\* str.lower(), by halves so that the recursion stays shallow on long texts
RECURSIVE lower(_)
lower(s) ==
    IF Len(s) = 0 THEN s
    ELSE IF Len(s) = 1 THEN LowerChar(s)
    ELSE lower(SubSeq(s, 1, Len(s) \div 2)) \o lower(SubSeq(s, Len(s) \div 2 + 1, Len(s)))

UpperChar(c) ==
    IF \E i \in 1..Len(LowerChars) : CharAt(LowerChars, i) = c
    THEN LET i == CHOOSE j \in 1..Len(LowerChars) : CharAt(LowerChars, j) = c
         IN CharAt(UpperChars, i)
    ELSE c

\* str.upper()
RECURSIVE upper(_)
upper(s) ==
    IF Len(s) = 0 THEN s
    ELSE IF Len(s) = 1 THEN UpperChar(s)
    ELSE upper(SubSeq(s, 1, Len(s) \div 2)) \o upper(SubSeq(s, Len(s) \div 2 + 1, Len(s)))

\* the positions (1-based) at which k occurs in t
Occurrences(t, k) == {i \in 1..(Len(t) - Len(k) + 1) : SubSeq(t, i, i + Len(k) - 1) = k}

\* k in t
Contains(t, k) == Occurrences(t, k) # {}

Min(S) == CHOOSE x \in S : \A y \in S : x <= y
Max(S) == CHOOSE x \in S : \A y \in S : x >= y

\* t.find(k): the 0-based index of the first occurrence, -1 when there is none
find(t, k) == IF Contains(t, k) THEN Min(Occurrences(t, k)) - 1 ELSE -1

Abs(n) == IF n < 0 THEN -n ELSE n

\* any(k in t for k in list)
AnyIn(list, t) == \E i \in 1..Len(list) : Contains(t, list[i])

----------------------------------------------------------------------------
(* Python re: patterns are trees, matched with re's backtracking order      *)
(* (greedy repetition first, alternatives left to right), under            *)
(* re.IGNORECASE.  A position is the 1-based index of the next character.  *)

Digits == {"0", "1", "2", "3", "4", "5", "6", "7", "8", "9"}      \* \d
Spaces == {" "}                                                  \* \s

Unbounded == -1

Set(S) == [t |-> "set", s |-> S, a |-> <<>>, lo |-> 1, hi |-> 1]
Ch(c) == Set({c})
Cat(nodes) == [t |-> "cat", s |-> {}, a |-> nodes, lo |-> 1, hi |-> 1]
Alt(nodes) == [t |-> "alt", s |-> {}, a |-> nodes, lo |-> 1, hi |-> 1]
Rep(n, lo, hi) == [t |-> "rep", s |-> {}, a |-> <<n>>, lo |-> lo, hi |-> hi]
Star(n) == Rep(n, 0, Unbounded)
Plus(n) == Rep(n, 1, Unbounded)
Opt(n) == Rep(n, 0, 1)
Lit(str) == Cat([i \in 1..Len(str) |-> Ch(CharAt(str, i))])
Words(list) == Alt([i \in 1..Len(list) |-> Lit(list[i])])

\* the positions a match of node n that starts at i can end at, best first
RECURSIVE Ends(_, _, _), Spread(_, _, _, _), CatFrom(_, _, _, _), AltFrom(_, _, _, _),
          RepFrom(_, _, _, _, _), SpreadRep(_, _, _, _, _, _)
Ends(n, t, i) ==
    CASE n.t = "set" -> IF i <= Len(t) /\ LowerChar(CharAt(t, i)) \in n.s THEN <<i + 1>> ELSE <<>>
      [] n.t = "cat" -> CatFrom(n.a, 1, t, <<i>>)
      [] n.t = "alt" -> AltFrom(n.a, 1, t, i)
      [] n.t = "rep" -> RepFrom(n.a[1], n.lo, n.hi, t, i)

Spread(n, t, starts, j) ==
    IF j > Len(starts) THEN <<>> ELSE Ends(n, t, starts[j]) \o Spread(n, t, starts, j + 1)

CatFrom(a, k, t, starts) ==
    IF k > Len(a) \/ starts = <<>> THEN starts ELSE CatFrom(a, k + 1, t, Spread(a[k], t, starts, 1))

AltFrom(a, k, t, i) ==
    IF k > Len(a) THEN <<>> ELSE Ends(a[k], t, i) \o AltFrom(a, k + 1, t, i)

RepFrom(n, lo, hi, t, i) ==
    LET once == SelectSeq(Ends(n, t, i), LAMBDA e : e > i)
        more == IF hi = 0 THEN <<>>
                ELSE SpreadRep(n, IF lo > 0 THEN lo - 1 ELSE 0,
                               IF hi = Unbounded THEN Unbounded ELSE hi - 1, t, once, 1)
    IN more \o (IF lo = 0 THEN <<i>> ELSE <<>>)

SpreadRep(n, lo, hi, t, starts, j) ==
    IF j > Len(starts) THEN <<>>
    ELSE RepFrom(n, lo, hi, t, starts[j]) \o SpreadRep(n, lo, hi, t, starts, j + 1)

\* A pattern is the sequence of its top-level items and the indices of those
\* that are capturing groups (every group of the source's patterns is top-level).
Pattern(items, groups) == [items |-> items, groups |-> groups]

\* the first way, in re's order, to match items k.. from i: <<>> when there is
\* none, else << the end position of each item >>
RECURSIVE FirstPath(_, _, _, _), TryEnds(_, _, _, _, _)
FirstPath(items, k, t, i) ==
    IF k > Len(items) THEN << <<>> >> ELSE TryEnds(items, k, t, Ends(items[k], t, i), 1)

TryEnds(items, k, t, ends, j) ==
    IF j > Len(ends) THEN <<>>
    ELSE LET p == FirstPath(items, k + 1, t, ends[j])
         IN IF p # <<>> THEN << <<ends[j]>> \o p[1] >> ELSE TryEnds(items, k, t, ends, j + 1)

NoMatch == [start |-> 0, stop |-> 0, groups |-> <<>>]

\* pattern.match at position i: the match object (start, end, groups()), or NoMatch
MatchAt(p, t, i) ==
    LET path == FirstPath(p.items, 1, t, i)
    IN IF path = <<>> THEN NoMatch
       ELSE LET ends == path[1]
                from(k) == IF k = 1 THEN i ELSE ends[k - 1]
            IN [start |-> i,
                stop |-> IF ends = <<>> THEN i ELSE ends[Len(ends)],
                groups |-> [g \in 1..Len(p.groups) |->
                              SubSeq(t, from(p.groups[g]), ends[p.groups[g]] - 1)]]

\* re.search(pattern, t) is not None
search(p, t) == \E i \in 1..(Len(t) + 1) : MatchAt(p, t, i) # NoMatch

\* pattern.finditer(t): the non-overlapping matches, left to right
RECURSIVE finditerFrom(_, _, _)
finditerFrom(p, t, from) ==
    LET S == {i \in from..(Len(t) + 1) : MatchAt(p, t, i) # NoMatch}
    IN IF S = {} THEN <<>>
       ELSE LET m == MatchAt(p, t, Min(S))
            IN <<m>> \o finditerFrom(p, t, IF m.stop = m.start THEN m.stop + 1 ELSE m.stop)

finditer(p, t) == finditerFrom(p, t, 1)

\* re.findall(pattern, t) for a pattern with one group: the group of each match
findall(p, t) == LET ms == finditer(p, t) IN [j \in 1..Len(ms) |-> ms[j].groups[1]]

\* int(s) / Decimal(s) of a run of digits
DigitVal(c) == CHOOSE d \in 0..9 : CharAt("0123456789", d + 1) = c
IsDigits(s) == Len(s) > 0 /\ \A i \in 1..Len(s) : CharAt(s, i) \in Digits
RECURSIVE int(_)
int(s) == IF Len(s) = 0 THEN 0 ELSE 10 * int(SubSeq(s, 1, Len(s) - 1)) + DigitVal(CharAt(s, Len(s)))

----------------------------------------------------------------------------
(* Python values, as far as the filters look at them *)

PyNone == [ty |-> "NoneType", s |-> "", n |-> 0, aware |-> FALSE]
PyStr(x) == [ty |-> "str", s |-> x, n |-> 0, aware |-> FALSE]
PyInt(k) == [ty |-> "int", s |-> "", n |-> k, aware |-> FALSE]
\* a datetime: n is its reading in hours, in UTC when it is aware, else on
\* whatever clock the naive value was taken from
PyDate(h, aw) == [ty |-> "datetime", s |-> "", n |-> h, aware |-> aw]
\* a key the dict does not have
Absent == [ty |-> "absent", s |-> "", n |-> 0, aware |-> FALSE]

\* bool(v)
Truthy(v) ==
    CASE v.ty = "str" -> v.s # ""
      [] v.ty = "int" -> v.n # 0
      [] v.ty = "datetime" -> TRUE
      [] OTHER -> FALSE

\* the outcome of a call: a returned value, or an exception raised
Return(v) == [exc |-> FALSE, val |-> v]
Raise == [exc |-> TRUE, val |-> FALSE]

\* a message: a dict of the keys the filters read, or a value that is no dict
Dict(message, txt, caption, date, message_date) ==
    [ty |-> "dict",
     d |-> [message |-> message, text |-> txt, caption |-> caption,
            date |-> date, message_date |-> message_date]]
NonDict(v) ==
    [ty |-> v.ty,
     d |-> [message |-> Absent, text |-> Absent, caption |-> Absent,
            date |-> Absent, message_date |-> Absent]]

has(message, key) == message.d[key].ty # "absent"

----------------------------------------------------------------------------
(* The criteria of RussianJobFilter.__init__ (entries in Latin-1) *)

exclude_keywords == <<
    "senior", "senior developer", "middle", "middle developer",
    "lead", "lead developer", "team lead", "team leader",
    "architect", "software architect", "principal", "principal developer",
    "staff", "staff engineer" >>

resume_exclude_keywords == <<
    "cv", "resume", "curriculum vitae", "curriculum vitae",
    "application", "portfolio",
    "looking for job", "seeking position", "seeking job",
    "open to opportunities", "open to offers", "willing to relocate",
    "actively seeking", "job search", "job hunting", "career change",
    "company transition", "new opportunities", "job switch", "career move",
    "available for projects", "looking for project", "ready to collaborate",
    "looking for team",
    "have experience in", "worked with", "my skills", "my technologies",
    "know", "studied", "studying",
    "i am developer", "i am programmer", "my specialization", "my interests" >>

junior_keywords == <<
    "junior developer", "junior engineer", "junior software developer",
    "junior software engineer", "intern developer", "trainee developer",
    "trainee engineer", "entry level developer", "entry-level developer",
    "no experience developer",
    "junior python developer", "junior javascript developer", "junior js developer",
    "junior react developer", "junior web3 developer", "junior blockchain developer",
    "junior frontend developer", "junior backend developer",
    "junior full stack developer" >>

non_developer_keywords == <<
    "marketing", "sales", "manager", "analyst", "designer", "tester",
    "qa", "quality assurance", "devops", "sysadmin",
    "data scientist", "data analyst", "product manager", "project manager",
    "hr", "human resources", "recruiter", "accountant" >>

contextual_keywords == << "web3", "web 3", "blockchain", "crypto", "nft", "defi" >>

developer_terms == << "developer", "engineer" >>

remote_keywords == <<
    "remote", "work from home", "wfh", "home office", "online", "virtual", "hybrid" >>

direct_indicators == << "cv", "resume", "curriculum vitae", "application" >>

personal_indicators == << "i", "my", "me", "to me" >>

\* looking\s+for\s+job, seeking\s+position, open\s+to\s+opportunities
seeking_patterns == <<
    Pattern(<<Lit("looking"), Plus(Set(Spaces)), Lit("for"), Plus(Set(Spaces)), Lit("job")>>, <<>>),
    Pattern(<<Lit("seeking"), Plus(Set(Spaces)), Lit("position")>>, <<>>),
    Pattern(<<Lit("open"), Plus(Set(Spaces)), Lit("to"), Plus(Set(Spaces)), Lit("opportunities")>>, <<>>) >>

\* experience\s*(\d+)\s*years?  and  (\d+)\s*years?\s*experience
experience_patterns == <<
    Pattern(<<Lit("experience"), Star(Set(Spaces)), Plus(Set(Digits)), Star(Set(Spaces)),
              Lit("year"), Opt(Ch("s"))>>, <<3>>),
    Pattern(<<Plus(Set(Digits)), Star(Set(Spaces)), Lit("year"), Opt(Ch("s")),
              Star(Set(Spaces)), Lit("experience")>>, <<1>>) >>

\* the experience gate accepts a stated requirement of at most this many years
MaxYears == 2

\* the resume context looks for a pronoun this close to the keyword
ResumeWindow == 100

----------------------------------------------------------------------------
(* salary_extractor.py *)

\* Optional[Decimal]
\* a Decimal is its whole part v and the digits of its fraction, without
\* trailing zeros; the amounts of a SalaryRange are whole, the amount pattern
\* having no decimal point, and arithmetic is done on whole amounts only
None == [some |-> FALSE, v |-> 0, frac |-> ""]
Dec(x, f) == [some |-> TRUE, v |-> x, frac |-> f]
Some(x) == Dec(x, "")
\* bool(amount): an absent amount and a zero amount are both falsy
AmountTruthy(a) == a.some /\ (a.v # 0 \/ a.frac # "")

\* period_mapping of __post_init__
period_mapping_keys ==
    << "hour", "hr", "hourly", "day", "daily", "week", "weekly", "month", "mo", "monthly",
       "year", "yr", "annum", "annual", "yearly" >>
period_mapping_values ==
    << "hourly", "hourly", "hourly", "daily", "daily", "weekly", "weekly", "monthly", "monthly", "monthly",
       "yearly", "yearly", "yearly", "yearly", "yearly" >>
\* period_mapping.get(p, 'yearly')
period_mapping_get(p) ==
    IF \E i \in 1..Len(period_mapping_keys) : period_mapping_keys[i] = p
    THEN period_mapping_values[CHOOSE i \in 1..Len(period_mapping_keys) : period_mapping_keys[i] = p]
    ELSE "yearly"

\* (a variant that keeps the endpoints as they were given)
SalaryRangeInit_no_swap(min_amount, max_amount, currency, period, is_range, raw_text) ==
    [min_amount |-> min_amount,
     max_amount |-> max_amount,
     currency |-> upper(currency),
     period |-> period_mapping_get(lower(period)),
     is_range |-> is_range,
     raw_text |-> raw_text]

SalaryRangeInit(min_amount, max_amount, currency, period, is_range, raw_text) ==
    LET swap == min_amount.some /\ max_amount.some /\ min_amount.v > max_amount.v
    IN [min_amount |-> IF swap THEN max_amount ELSE min_amount,
        max_amount |-> IF swap THEN min_amount ELSE max_amount,
        currency |-> upper(currency),
        period |-> period_mapping_get(lower(period)),
        is_range |-> is_range,
        raw_text |-> raw_text]

\* self.currencies: the symbols and words it has, and the code of each
currency_keys == << "$", "£", "¥", "usd", "eur", "gbp", "jpy", "dollars", "euros", "pounds" >>
currency_codes == << "USD", "GBP", "JPY", "USD", "EUR", "GBP", "JPY", "USD", "EUR", "GBP" >>

InCurrencies(k) == \E i \in 1..Len(currency_keys) : currency_keys[i] = k
\* self.currencies[k]
currencies(k) == currency_codes[CHOOSE i \in 1..Len(currency_keys) : currency_keys[i] = k]
\* self.currencies.get(k, 'USD')
currencies_get(k) == IF InCurrencies(k) THEN currencies(k) ELSE "USD"

period_names == << "hourly", "daily", "weekly", "monthly", "yearly" >>
period_keywords == <<
    << "hour", "hr", "hourly", "per hour", "/hr", "/hour" >>,
    << "day", "daily", "per day", "/day" >>,
    << "week", "weekly", "per week", "/week" >>,
    << "month", "mo", "monthly", "per month", "/month" >>,
    << "year", "yr", "annum", "annual", "yearly", "per annum", "per year", "/year", "pa" >> >>

\* the period is looked for this far either side of the match
PeriodWindow == 100

\* [$£¥]   \d{1,3}(?:,\d{3})*(?:\s*k)?   \s*   [-]
SYMBOL == Set({"$", "£", "¥"})
AMOUNT == Cat(<<Rep(Set(Digits), 1, 3), Star(Cat(<<Ch(","), Rep(Set(Digits), 3, 3)>>)),
               Opt(Cat(<<Star(Set(Spaces)), Ch("k")>>))>>)
WS == Star(Set(Spaces))
DASH == Set({"-"})
\* usd|eur|gbp|jpy|inr|rub|uah|kzt|btc|dollars?|euros?|pounds?
CURRENCY_WORD == Alt(<<Lit("usd"), Lit("eur"), Lit("gbp"), Lit("jpy"), Lit("inr"), Lit("rub"),
                       Lit("uah"), Lit("kzt"), Lit("btc"),
                       Cat(<<Lit("dollar"), Opt(Ch("s"))>>),
                       Cat(<<Lit("euro"), Opt(Ch("s"))>>),
                       Cat(<<Lit("pound"), Opt(Ch("s"))>>)>>)
\* (?:per\s+)?   hour|day|week|month|year|annum|annual
PER == Opt(Cat(<<Lit("per"), Plus(Set(Spaces))>>))
PERIOD_WORD == Words(<<"hour", "day", "week", "month", "year", "annum", "annual">>)

salary_patterns == <<
    Pattern(<<SYMBOL, WS, AMOUNT>>, <<1, 3>>),
    Pattern(<<AMOUNT, WS, SYMBOL>>, <<1, 3>>),
    Pattern(<<AMOUNT, WS, CURRENCY_WORD>>, <<1, 3>>),
    Pattern(<<SYMBOL, WS, AMOUNT, WS, DASH, WS, AMOUNT>>, <<1, 3, 7>>),
    Pattern(<<AMOUNT, WS, DASH, WS, AMOUNT, WS, SYMBOL>>, <<1, 5, 7>>),
    Pattern(<<AMOUNT, WS, DASH, WS, AMOUNT, WS, CURRENCY_WORD>>, <<1, 5, 7>>),
    Pattern(<<SYMBOL, WS, AMOUNT, WS, PER, PERIOD_WORD>>, <<1, 3, 6>>),
    Pattern(<<AMOUNT, WS, PER, PERIOD_WORD, WS, SYMBOL>>, <<1, 4, 6>>),
    Pattern(<<Words(<<"salary", "pay", "compensation">>), Plus(Set(Spaces)),
              Words(<<"between", "from", "range">>), Plus(Set(Spaces)),
              SYMBOL, WS, AMOUNT, WS, Words(<<"and", "to">>), Plus(Set(Spaces)),
              SYMBOL, WS, AMOUNT>>, <<5, 7, 11, 13>>) >>

\* str.replace(',', '')
RECURSIVE RemoveCommas(_)
RemoveCommas(s) ==
    IF Len(s) = 0 THEN s
    ELSE IF Len(s) = 1 THEN (IF s = "," THEN "" ELSE s)
    ELSE RemoveCommas(SubSeq(s, 1, Len(s) \div 2)) \o RemoveCommas(SubSeq(s, Len(s) \div 2 + 1, Len(s)))

\* str.strip()
RECURSIVE strip(_)
strip(s) ==
    IF Len(s) > 0 /\ CharAt(s, 1) \in Spaces THEN strip(SubSeq(s, 2, Len(s)))
    ELSE IF Len(s) > 0 /\ CharAt(s, Len(s)) \in Spaces THEN strip(SubSeq(s, 1, Len(s) - 1))
    ELSE s

\* the digits of a fraction without its trailing zeros
RECURSIVE StripZeros(_)
StripZeros(s) ==
    IF Len(s) > 0 /\ CharAt(s, Len(s)) = "0" THEN StripZeros(SubSeq(s, 1, Len(s) - 1)) ELSE s

\* Decimal(s), for s of digits, points, letters and inner spaces: digits with
\* at most one point and at least one digit are a value; anything else
\* raises InvalidOperation
Decimal(s) ==
    IF IsDigits(s) THEN [exc |-> FALSE, val |-> int(s), frac |-> ""]
    ELSE IF Cardinality(Occurrences(s, ".")) = 1
    THEN LET p == find(s, ".") + 1
             whole == SubSeq(s, 1, p - 1)
             fraction == SubSeq(s, p + 1, Len(s))
         IN IF /\ (whole = "" \/ IsDigits(whole))
               /\ (fraction = "" \/ IsDigits(fraction))
               /\ (whole # "" \/ fraction # "")
            THEN [exc |-> FALSE, val |-> int(whole), frac |-> StripZeros(fraction)]
            ELSE Raise
    ELSE Raise

_parse_amount(amount_str) ==
    IF amount_str = "" THEN None
    ELSE LET stripped == strip(RemoveCommas(amount_str))
             thousands == IF Len(stripped) > 0 /\ LowerChar(CharAt(stripped, Len(stripped))) = "k"
                          THEN SubSeq(stripped, 1, Len(stripped) - 1) \o "000"
                          ELSE stripped
             d == Decimal(thousands)
         IN IF d.exc THEN None ELSE Dec(d.val, d.frac)

\* position is match.start(), 0-based
_detect_period(txt, position) ==
    LET context_start == IF position - PeriodWindow > 0 THEN position - PeriodWindow ELSE 0
        context_end == IF position + PeriodWindow < Len(txt) THEN position + PeriodWindow ELSE Len(txt)
        context == lower(SubSeq(txt, context_start + 1, context_end))
        found == {p \in 1..Len(period_names) : AnyIn(period_keywords[p], context)}
    IN IF found = {} THEN "yearly" ELSE period_names[Min(found)]

_parse_match(match, original_text) ==
    LET groups == match.groups
        raw_text == SubSeq(original_text, match.start, match.stop - 1)
        period == _detect_period(original_text, match.start - 1)
    IN CASE Len(groups) = 2 ->
              IF InCurrencies(groups[1])
              THEN SalaryRangeInit(_parse_amount(groups[2]), None, currencies(groups[1]),
                                   period, FALSE, raw_text)
              ELSE SalaryRangeInit(_parse_amount(groups[1]), None, currencies_get(lower(groups[2])),
                                   period, FALSE, raw_text)
         [] Len(groups) = 3 ->
              IF InCurrencies(groups[1])
              THEN SalaryRangeInit(_parse_amount(groups[2]), _parse_amount(groups[3]),
                                   currencies(groups[1]), period, TRUE, raw_text)
              ELSE SalaryRangeInit(_parse_amount(groups[1]), _parse_amount(groups[2]),
                                   currencies_get(lower(groups[3])), period, TRUE, raw_text)
         [] Len(groups) = 4 ->
              SalaryRangeInit(_parse_amount(groups[2]), _parse_amount(groups[4]),
                              currencies(groups[1]), period, TRUE, raw_text)

\* (a variant that tells salaries apart by their raw text too)
dedup_key_with_raw_text(salary) ==
    <<salary.min_amount, salary.max_amount, salary.currency, salary.period, salary.raw_text>>

dedup_key(salary) == <<salary.min_amount, salary.max_amount, salary.currency, salary.period>>

\* keeps the first salary of each key, in order
RECURSIVE _deduplicate_salaries(_)
_deduplicate_salaries(salaries) ==
    IF salaries = <<>> THEN <<>>
    ELSE LET n == Len(salaries)
             front == _deduplicate_salaries(SubSeq(salaries, 1, n - 1))
         IN IF \E i \in 1..(n - 1) : dedup_key(salaries[i]) = dedup_key(salaries[n])
            THEN front ELSE Append(front, salaries[n])

\* s.min_amount or Decimal('0')
sort_key(salary) == IF AmountTruthy(salary.min_amount) THEN salary.min_amount.v ELSE 0

\* sorted(salaries, key=sort_key): stable
RECURSIVE sorted(_)
sorted(salaries) ==
    IF salaries = <<>> THEN <<>>
    ELSE LET n == Len(salaries)
             front == sorted(SubSeq(salaries, 1, n - 1))
             last == salaries[n]
             before == SelectSeq(front, LAMBDA x : sort_key(x) <= sort_key(last))
             after == SelectSeq(front, LAMBDA x : sort_key(x) > sort_key(last))
         IN before \o <<last>> \o after

\* the salaries of every match of every pattern, pattern by pattern
RECURSIVE all_matches(_, _)
all_matches(txt, k) ==
    IF k > Len(salary_patterns) THEN <<>>
    ELSE LET ms == finditer(salary_patterns[k], txt)
         IN [j \in 1..Len(ms) |-> _parse_match(ms[j], txt)] \o all_matches(txt, k + 1)

extract_salaries(txt) ==
    IF txt = "" THEN <<>> ELSE sorted(_deduplicate_salaries(all_matches(txt, 1)))

conversion_periods == << "hourly", "daily", "weekly", "monthly" >>
conversion_factors == << 2080, 260, 52, 12 >>
\* conversions.get(period, 1)
conversions_get(period) ==
    IF \E i \in 1..Len(conversion_periods) : conversion_periods[i] = period
    THEN conversion_factors[CHOOSE i \in 1..Len(conversion_periods) : conversion_periods[i] = period]
    ELSE 1

\* (a variant that converts the lower endpoint only)
normalize_to_yearly_min_only(salary) ==
    IF salary.period = "yearly" THEN salary
    ELSE LET factor == conversions_get(salary.period)
         IN [salary EXCEPT
               !.min_amount = IF AmountTruthy(@) THEN Some(@.v * factor) ELSE @,
               !.period = "yearly"]

\* the value normalize_to_yearly returns (it is the object it was given, updated)
normalize_to_yearly(salary) ==
    IF salary.period = "yearly" THEN salary
    ELSE LET factor == conversions_get(salary.period)
         IN [salary EXCEPT
               !.min_amount = IF AmountTruthy(@) THEN Some(@.v * factor) ELSE @,
               !.max_amount = IF AmountTruthy(@) THEN Some(@.v * factor) ELSE @,
               !.period = "yearly"]

\* the list filter_by_range returns; every salary of the list it was given
\* has been normalised in place by then, and _convert_currency changes nothing
filter_by_range(salaries, min_salary, max_salary) ==
    LET keep(salary) ==
            LET yearly_salary == normalize_to_yearly(salary)
            IN /\ ~(/\ AmountTruthy(min_salary)
                    /\ AmountTruthy(yearly_salary.max_amount)
                    /\ yearly_salary.max_amount.v < min_salary.v)
               /\ ~(/\ AmountTruthy(max_salary)
                    /\ AmountTruthy(yearly_salary.min_amount)
                    /\ yearly_salary.min_amount.v > max_salary.v)
        yearly == [i \in 1..Len(salaries) |-> normalize_to_yearly(salaries[i])]
    IN SelectSeq(yearly, keep)

----------------------------------------------------------------------------
(* filters.py: the filter instances *)

LowerAll(list) == [i \in 1..Len(list) |-> lower(list[i])]

MessageFilter(keywords, date_filter_hours) ==
    [cls |-> "MessageFilter", keywords |-> LowerAll(keywords),
     date_filter_hours |-> date_filter_hours,
     exclude_keywords |-> <<>>, min_salary |-> PyNone, max_salary |-> PyNone]

AdvancedFilter(keywords, date_filter_hours, excl, min_salary, max_salary) ==
    [cls |-> "AdvancedFilter", keywords |-> LowerAll(keywords),
     date_filter_hours |-> date_filter_hours,
     exclude_keywords |-> LowerAll(excl), min_salary |-> min_salary, max_salary |-> max_salary]

RussianJobFilter(keywords, date_filter_hours) ==
    [cls |-> "RussianJobFilter", keywords |-> LowerAll(keywords),
     date_filter_hours |-> date_filter_hours,
     exclude_keywords |-> exclude_keywords, min_salary |-> PyNone, max_salary |-> PyNone]

(* filters.py: the methods.  A method that can raise returns Return(v) or   *)
(* Raise; the others return their value.                                   *)

\* message['k'] or ''
OrEmpty(v) == IF Truthy(v) THEN v ELSE PyStr("")

\* `'k' in message` raises TypeError on a message that is None or an int
_extract_message_text(message) ==
    CASE message.ty = "dict" ->
           Return(IF has(message, "message") THEN OrEmpty(message.d.message)
                  ELSE IF has(message, "text") THEN OrEmpty(message.d.text)
                  ELSE IF has(message, "caption") THEN OrEmpty(message.d.caption)
                  ELSE PyStr(""))
      [] OTHER -> Raise

\* datetime.now() is the naive reading of the local clock, offset hours from UTC
_extract_message_date(message, clock, offset) ==
    IF has(message, "date") THEN message.d.date
    ELSE IF has(message, "message_date") THEN message.d.message_date
    ELSE PyDate(clock + offset, FALSE)

\* (a variant that compares the text as it is written)
matches_keywords_case_sensitive(self, txt) ==
    IF ~Truthy(txt) THEN Return(FALSE)
    ELSE IF txt.ty # "str" THEN Raise
    ELSE Return(AnyIn(self.keywords, txt.s))

\* text.lower() raises AttributeError on a value that is no str
matches_keywords(self, txt) ==
    IF ~Truthy(txt) THEN Return(FALSE)
    ELSE IF txt.ty # "str" THEN Raise
    ELSE Return(AnyIn(self.keywords, lower(txt.s)))

\* (a variant that takes a window of 0 hours as a window, not as no filter)
RussianJobFilter_matches_date_filter_zero_window(self, message_date, clock) ==
    IF self.date_filter_hours < 0 THEN Return(TRUE)
    ELSE IF message_date.ty = "NoneType" THEN Return(TRUE)
    ELSE IF message_date.ty # "datetime" THEN Raise
    ELSE Return(message_date.n >= clock - self.date_filter_hours)

\* message_date.tzinfo raises AttributeError on None; a naive datetime is
\* relabelled as UTC, an aware one is compared as the instant it is
MessageFilter_matches_date_filter(self, message_date, clock) ==
    IF self.date_filter_hours <= 0 THEN Return(TRUE)
    ELSE IF message_date.ty # "datetime" THEN Raise
    ELSE Return(message_date.n >= clock - self.date_filter_hours)

RussianJobFilter_matches_date_filter(self, message_date, clock) ==
    IF self.date_filter_hours <= 0 THEN Return(TRUE)
    ELSE IF message_date.ty = "NoneType" THEN Return(TRUE)
    ELSE IF message_date.ty # "datetime" THEN Raise
    ELSE Return(message_date.n >= clock - self.date_filter_hours)

\* (a variant that turns away a timestamp exactly the window old)
matches_date_filter_strict(self, message_date, clock) ==
    IF self.date_filter_hours <= 0 THEN Return(TRUE)
    ELSE IF message_date.ty = "NoneType" THEN
        (IF self.cls = "RussianJobFilter" THEN Return(TRUE) ELSE Raise)
    ELSE IF message_date.ty # "datetime" THEN Raise
    ELSE Return(message_date.n > clock - self.date_filter_hours)

matches_date_filter(self, message_date, clock) ==
    IF self.cls = "RussianJobFilter"
    THEN RussianJobFilter_matches_date_filter(self, message_date, clock)
    ELSE MessageFilter_matches_date_filter(self, message_date, clock)

\* (a variant that compares the text as it is written)
has_exclude_keywords_case_sensitive(txt) ==
    IF txt = "" THEN FALSE ELSE AnyIn(exclude_keywords, txt)

has_exclude_keywords(txt) ==
    IF txt = "" THEN FALSE ELSE AnyIn(exclude_keywords, lower(txt))

\* txt is the lowercased text
_is_likely_resume_context(txt, keyword) ==
    \/ \E i \in 1..Len(direct_indicators) : direct_indicators[i] = keyword
    \/ \E i \in 1..Len(personal_indicators) :
          /\ Contains(txt, personal_indicators[i])
          /\ Abs(find(txt, keyword) - find(txt, personal_indicators[i])) < ResumeWindow
    \/ \E i \in 1..Len(seeking_patterns) : search(seeking_patterns[i], txt)

has_resume_keywords(txt) ==
    IF txt = "" THEN FALSE
    ELSE LET text_lower == lower(txt)
         IN \E i \in 1..Len(resume_exclude_keywords) :
               /\ Contains(text_lower, resume_exclude_keywords[i])
               /\ _is_likely_resume_context(text_lower, resume_exclude_keywords[i])

\* (a variant that rejects a contextual keyword whatever else the text says)
has_non_developer_keywords_any_contextual(txt) ==
    IF txt = "" THEN FALSE
    ELSE LET text_lower == lower(txt)
         IN AnyIn(non_developer_keywords, text_lower) \/ AnyIn(contextual_keywords, text_lower)

has_non_developer_keywords(txt) ==
    IF txt = "" THEN FALSE
    ELSE LET text_lower == lower(txt)
         IN \/ AnyIn(non_developer_keywords, text_lower)
            \/ /\ AnyIn(contextual_keywords, text_lower)
               /\ ~AnyIn(developer_terms, text_lower)

\* the captured figures of every experience pattern, pattern by pattern
RECURSIVE experience_matches(_, _)
experience_matches(txt, k) ==
    IF k > Len(experience_patterns) THEN <<>>
    ELSE findall(experience_patterns[k], txt) \o experience_matches(txt, k + 1)

\* (a variant that looks for a figure first and for a junior keyword only
\* when there is none)
matches_experience_requirements_figure_first(txt) ==
    IF txt = "" THEN FALSE
    ELSE LET text_lower == lower(txt)
             matches == experience_matches(text_lower, 1)
         IN IF matches # <<>> THEN int(matches[1]) <= MaxYears
            ELSE AnyIn(junior_keywords, text_lower) => ~has_non_developer_keywords(text_lower)

\* the first junior keyword found decides; else the first figure found decides
matches_experience_requirements(txt) ==
    IF txt = "" THEN FALSE
    ELSE LET text_lower == lower(txt)
         IN IF AnyIn(junior_keywords, text_lower)
            THEN ~has_non_developer_keywords(text_lower)
            ELSE LET matches == experience_matches(text_lower, 1)
                 IN IF matches = <<>> THEN TRUE ELSE int(matches[1]) <= MaxYears

\* (a variant that lets a junior posting through without a remote keyword)
matches_remote_requirement_or_junior(txt) ==
    IF txt = "" THEN FALSE
    ELSE AnyIn(remote_keywords, lower(txt)) \/ AnyIn(junior_keywords, lower(txt))

matches_remote_requirement(txt) ==
    IF txt = "" THEN FALSE ELSE AnyIn(remote_keywords, lower(txt))

\* the dict get_experience_info returns; empty marks {}
get_experience_info(txt) ==
    IF txt = "" THEN [empty |-> TRUE]
    ELSE LET text_lower == lower(txt)
             junior_found == AnyIn(junior_keywords, text_lower)
             non_dev_found == has_non_developer_keywords(text_lower)
             matches == experience_matches(text_lower, 1)
             experience_years == IF matches = <<>> THEN PyNone ELSE PyInt(int(matches[1]))
             remote_found == AnyIn(remote_keywords, text_lower)
         IN [empty |-> FALSE,
             is_junior |-> junior_found /\ ~non_dev_found,
             experience_years |-> experience_years,
             is_remote |-> remote_found,
             is_developer_position |-> ~non_dev_found,
             meets_requirements |->
                 \/ junior_found /\ ~non_dev_found
                 \/ /\ experience_years.ty # "NoneType" /\ experience_years.n <= MaxYears /\ ~non_dev_found
                    /\ remote_found]

\* the salary test of one extracted salary against the bounds
salary_meets(self, salary) ==
    LET yearly_salary == normalize_to_yearly(salary)
    IN /\ ~(/\ Truthy(self.min_salary)
            /\ AmountTruthy(yearly_salary.max_amount)
            /\ yearly_salary.max_amount.v < self.min_salary.n)
       /\ ~(/\ Truthy(self.max_salary)
            /\ AmountTruthy(yearly_salary.min_amount)
            /\ yearly_salary.min_amount.v > self.max_salary.n)

\* (a variant that lets a text without a salary through)
_matches_salary_range_no_salary_ok(self, txt) ==
    IF ~(Truthy(self.min_salary) \/ Truthy(self.max_salary)) THEN TRUE
    ELSE LET salaries == extract_salaries(txt)
         IN \A i \in 1..Len(salaries) : salary_meets(self, salaries[i])

_matches_salary_range(self, txt) ==
    IF ~(Truthy(self.min_salary) \/ Truthy(self.max_salary)) THEN TRUE
    ELSE LET salaries == extract_salaries(txt)
         IN IF salaries = <<>> THEN FALSE
            ELSE \E i \in 1..Len(salaries) : salary_meets(self, salaries[i])

----------------------------------------------------------------------------
(* filter_message, gate by gate *)

\* the gates of each filter_message in the order of its statements;
\* AdvancedFilter runs MessageFilter's through super() and then its own
MessageFilter_chain == << "text", "keywords", "date" >>
\* (a variant with the experience check moved before the non-developer check)
RussianJobFilter_chain_experience_first ==
    << "text", "keywords", "date", "exclude", "resume", "experience", "non_developer", "remote" >>
AdvancedFilter_chain == << "text", "keywords", "date", "adv_exclude", "salary" >>
RussianJobFilter_chain == << "text", "keywords", "date", "exclude", "resume",
                            "non_developer", "experience", "remote" >>

chain(cls) ==
    CASE cls = "MessageFilter" -> MessageFilter_chain
      [] cls = "AdvancedFilter" -> AdvancedFilter_chain
      [] cls = "RussianJobFilter" -> RussianJobFilter_chain

\* the statement after gate: the next gate, or "done" for the final return True
after(cls, gate) ==
    LET c == chain(cls)
        i == CHOOSE j \in 1..Len(c) : c[j] = gate
    IN IF i = Len(c) THEN "done" ELSE c[i + 1]

\* (a variant with the date check outside the try)
in_try_date_outside(cls, gate) == gate \notin {"adv_exclude", "date"}

\* whether an exception raised in gate is handled by filter_message's try
in_try(cls, gate) == gate \notin {"adv_exclude"}

\* one gate: it passes and the call goes on (or returns True after the last
\* gate), it fails and the call returns False, or it raises and the except clause
\* returns False, if there is one around it
Gate(gate, outcome) ==
    /\ pc = gate
    /\ result = "pending"
    /\ trace' = Append(trace, gate)
    /\ pc' = IF outcome = "pass" THEN after(flt.cls, gate) ELSE "done"
    /\ result' = CASE outcome = "pass" ->
                        IF after(flt.cls, gate) = "done" THEN "accept" ELSE "pending"
                   [] outcome = "fail" -> "reject"
                   [] outcome = "raise" ->
                        IF in_try(flt.cls, gate) THEN "reject" ELSE "escaped"
    /\ caught' = (caught \/ (outcome = "raise" /\ in_try(flt.cls, gate)))

Outcome(r) == IF r.exc THEN "raise" ELSE IF r.val THEN "pass" ELSE "fail"

ExtractText ==
    LET r == _extract_message_text(msg)
    IN /\ Gate("text", IF r.exc THEN "raise" ELSE IF Truthy(r.val) THEN "pass" ELSE "fail")
       /\ text' = IF r.exc THEN text ELSE r.val
       /\ UNCHANGED <<flt, msg, now, extractor_calls, utcoffset, call, out>>

CheckKeywords ==
    /\ Gate("keywords", Outcome(matches_keywords(flt, text)))
    /\ UNCHANGED <<flt, msg, now, text, extractor_calls, utcoffset, call, out>>

CheckDate ==
    LET message_date == _extract_message_date(msg, now, utcoffset)
    IN /\ Gate("date", Outcome(matches_date_filter(flt, message_date, now)))
       /\ UNCHANGED <<flt, msg, now, text, extractor_calls, utcoffset, call, out>>

CheckExclude ==
    /\ Gate("exclude", IF has_exclude_keywords(text.s) THEN "fail" ELSE "pass")
    /\ UNCHANGED <<flt, msg, now, text, extractor_calls, utcoffset, call, out>>

CheckResume ==
    /\ Gate("resume", IF has_resume_keywords(text.s) THEN "fail" ELSE "pass")
    /\ UNCHANGED <<flt, msg, now, text, extractor_calls, utcoffset, call, out>>

CheckNonDeveloper ==
    /\ Gate("non_developer", IF has_non_developer_keywords(text.s) THEN "fail" ELSE "pass")
    /\ UNCHANGED <<flt, msg, now, text, extractor_calls, utcoffset, call, out>>

CheckExperience ==
    /\ Gate("experience", IF matches_experience_requirements(text.s) THEN "pass" ELSE "fail")
    /\ UNCHANGED <<flt, msg, now, text, extractor_calls, utcoffset, call, out>>

CheckRemote ==
    /\ Gate("remote", IF matches_remote_requirement(text.s) THEN "pass" ELSE "fail")
    /\ UNCHANGED <<flt, msg, now, text, extractor_calls, utcoffset, call, out>>

\* AdvancedFilter.filter_message after super().filter_message(message) returned
\* True: the text is taken again and lowered, outside any try
AdvancedExclude ==
    LET r == _extract_message_text(msg)
        bad == r.exc \/ r.val.ty # "str"
    IN /\ Gate("adv_exclude",
               IF bad THEN "raise"
               ELSE IF AnyIn(flt.exclude_keywords, lower(r.val.s)) THEN "fail" ELSE "pass")
       /\ text' = IF r.exc THEN text ELSE r.val
       /\ UNCHANGED <<flt, msg, now, extractor_calls, utcoffset, call, out>>

\* the salary check runs, and calls the extractor, only with a truthy bound
AdvancedSalary ==
    LET configured == Truthy(flt.min_salary) \/ Truthy(flt.max_salary)
    IN /\ Gate("salary", IF ~configured \/ _matches_salary_range(flt, text.s) THEN "pass" ELSE "fail")
       /\ extractor_calls' = IF configured THEN extractor_calls + 1 ELSE extractor_calls
       /\ UNCHANGED <<flt, msg, now, text, utcoffset, call, out>>

\* what one gate of filter_message(message) does, the clock reading clock
gate_outcome(self, message, clock, offset, gate) ==
    LET r == _extract_message_text(message)
    IN CASE gate = "text" -> IF r.exc THEN "raise" ELSE IF Truthy(r.val) THEN "pass" ELSE "fail"
         [] gate = "keywords" -> Outcome(matches_keywords(self, r.val))
         [] gate = "date" ->
              Outcome(matches_date_filter(self, _extract_message_date(message, clock, offset), clock))
         [] gate = "exclude" -> IF has_exclude_keywords(r.val.s) THEN "fail" ELSE "pass"
         [] gate = "resume" -> IF has_resume_keywords(r.val.s) THEN "fail" ELSE "pass"
         [] gate = "non_developer" -> IF has_non_developer_keywords(r.val.s) THEN "fail" ELSE "pass"
         [] gate = "experience" -> IF matches_experience_requirements(r.val.s) THEN "pass" ELSE "fail"
         [] gate = "remote" -> IF matches_remote_requirement(r.val.s) THEN "pass" ELSE "fail"
         [] gate = "adv_exclude" ->
              IF r.exc \/ r.val.ty # "str" THEN "raise"
              ELSE IF AnyIn(self.exclude_keywords, lower(r.val.s)) THEN "fail" ELSE "pass"
         [] gate = "salary" ->
              IF ~(Truthy(self.min_salary) \/ Truthy(self.max_salary)) \/ _matches_salary_range(self, r.val.s)
              THEN "pass" ELSE "fail"

\* how a call ends at a gate that did not pass
verdict(cls, gate, outcome) ==
    IF outcome = "fail" \/ in_try(cls, gate) THEN "reject" ELSE "escaped"

\* the gates from the i-th on, up to the first that does not pass
RECURSIVE filter_message_from(_, _, _, _, _)
filter_message_from(self, message, clock, offset, i) ==
    LET c == chain(self.cls)
    IN IF i > Len(c) THEN "accept"
       ELSE LET outcome == gate_outcome(self, message, clock, offset, c[i])
            IN IF outcome = "pass" THEN filter_message_from(self, message, clock, offset, i + 1)
               ELSE verdict(self.cls, c[i], outcome)

\* filter_message(message) as one call
filter_message(self, message, clock, offset) ==
    filter_message_from(self, message, clock, offset, 1)

----------------------------------------------------------------------------
(* The messages and filters the classification is run on *)

\* the longest text, in phrases
MaxPhrases == 2

Join(t, p) == IF t = "" THEN p ELSE IF p = "" THEN t ELSE t \o " " \o p

\* the texts of at most n phrases of P, joined by single spaces
RECURSIVE TextsOf(_, _)
TextsOf(P, n) ==
    IF n = 0 THEN {""}
    ELSE LET shorter == TextsOf(P, n - 1)
         IN shorter \cup {Join(t, p) : t \in shorter, p \in P}

\* one phrase for each gate to decide on
Phrases == {"python", "Senior", "cv", "sales", "5 years experience", "remote", "$30k"}

\* the clock when the message is classified, and the window of the date filter
Clock == 10
Window == 3

Dates == {Absent, PyNone, PyDate(Clock - 1, TRUE), PyDate(Clock - Window - 1, TRUE)}

\* hours from UTC of the zones the filter is run in
UtcOffsets == {-5, 0}

Messages ==
    {Dict(PyStr(t), Absent, Absent, d, Absent) : t \in TextsOf(Phrases, MaxPhrases), d \in Dates}
    \cup {Dict(v, Absent, Absent, PyDate(Clock, TRUE), Absent) : v \in {PyNone, PyInt(5), PyInt(0)}}
    \cup {Dict(Absent, PyStr("python remote"), Absent, PyDate(Clock, TRUE), Absent),
          Dict(Absent, Absent, PyStr("python remote"), Absent, PyDate(Clock - Window - 1, TRUE)),
          Dict(Absent, Absent, Absent, PyDate(Clock, TRUE), Absent),
          Dict(PyStr("python remote"), Absent, Absent, PyStr("yesterday"), Absent),
          NonDict(PyNone), NonDict(PyInt(5))}

Filters ==
    {MessageFilter(<<"Python">>, h) : h \in {0, Window}}
    \cup {RussianJobFilter(<<"python">>, h) : h \in {0, Window}}
    \cup {AdvancedFilter(<<"python">>, Window, <<"Senior">>, lo, hi) :
            lo \in {PyNone, PyInt(0), PyInt(40000)}, hi \in {PyNone, PyInt(80000)}}

NoCall == [fn |-> "none"]
NoOut == [done |-> FALSE]

Init ==
    /\ flt \in Filters
    /\ msg \in Messages
    /\ now = Clock
    \* the zone is read only when the message has no date
    /\ utcoffset \in IF has(msg, "date") \/ has(msg, "message_date") THEN {0} ELSE UtcOffsets
    /\ pc = "text"
    /\ text = PyNone
    /\ trace = <<>>
    /\ result = "pending"
    /\ caught = FALSE
    /\ extractor_calls = 0
    /\ call = NoCall
    /\ out = NoOut

Next ==
    \/ ExtractText
    \/ CheckKeywords
    \/ CheckDate
    \/ CheckExclude
    \/ CheckResume
    \/ CheckNonDeveloper
    \/ CheckExperience
    \/ CheckRemote
    \/ AdvancedExclude
    \/ AdvancedSalary

Spec == Init /\ [][Next]_vars

----------------------------------------------------------------------------
(* What the claims are stated over: the message's text and date, and each   *)
(* gate's verdict on them, independently of where the call has got to.     *)

MsgText == _extract_message_text(msg)
\* the text as a string, for a message that has one
MsgStr == IF ~MsgText.exc /\ MsgText.val.ty = "str" THEN MsgText.val.s ELSE ""

IsPrefix(a, b) == Len(a) <= Len(b) /\ SubSeq(b, 1, Len(a)) = a
Last(q) == q[Len(q)]

\* gate g, evaluated on the message, lets it through
Passes(g) ==
    CASE g = "text" -> ~MsgText.exc /\ Truthy(MsgText.val)
      [] g = "keywords" -> Outcome(matches_keywords(flt, MsgText.val)) = "pass"
      [] g = "date" ->
           Outcome(matches_date_filter(flt, _extract_message_date(msg, now, utcoffset), now)) = "pass"
      [] g = "exclude" -> ~has_exclude_keywords(MsgStr)
      [] g = "resume" -> ~has_resume_keywords(MsgStr)
      [] g = "non_developer" -> ~has_non_developer_keywords(MsgStr)
      [] g = "experience" -> matches_experience_requirements(MsgStr)
      [] g = "remote" -> matches_remote_requirement(MsgStr)
      [] g = "adv_exclude" -> ~AnyIn(flt.exclude_keywords, lower(MsgStr))
      [] g = "salary" -> _matches_salary_range(flt, MsgStr)

\* the order the specification gives the gates of each variant
GateOrder ==
    CASE flt.cls = "MessageFilter" -> << "text", "keywords", "date" >>
      [] flt.cls = "AdvancedFilter" -> << "text", "keywords", "date", "adv_exclude", "salary" >>
      [] flt.cls = "RussianJobFilter" ->
           << "text", "keywords", "date", "exclude", "resume", "non_developer",
              "experience", "remote" >>

\* C1: the gates are evaluated in the one fixed order of the variant; every gate
\* before the last one evaluated passed; the call rejects exactly at a gate
\* that does not pass and evaluates nothing after it; it accepts only with the
\* whole chain evaluated and passed; and AdvancedFilter has called the salary
\* extractor only with the text, keyword, recency and exclude-keyword gates
\* evaluated and passed.
C1_GateOrderShortCircuit ==
    /\ IsPrefix(trace, GateOrder)
    /\ \A i \in 1..(Len(trace) - 1) : Passes(trace[i])
    /\ (result = "pending" => \A i \in 1..Len(trace) : Passes(trace[i]))
    /\ (result = "reject" => trace # <<>> /\ ~Passes(Last(trace)) /\ pc = "done")
    /\ (result = "accept" => trace = GateOrder /\ \A i \in 1..Len(trace) : Passes(trace[i]))
    /\ (extractor_calls > 0 =>
          /\ flt.cls = "AdvancedFilter"
          /\ SubSeq(trace, 1, 4) = << "text", "keywords", "date", "adv_exclude" >>
          /\ \A i \in 1..4 : Passes(trace[i]))

\* RussianJobFilter has rejected at its seventh gate, the six before it passed
C1_Witness ==
    /\ flt.cls = "RussianJobFilter"
    /\ result = "reject"
    /\ Len(trace) = 7
    /\ Last(trace) = "experience"

SalaryGateRan == flt.cls = "AdvancedFilter" /\ trace # <<>> /\ Last(trace) = "salary"
\* a bound is configured: given, and not None
BoundSet(b) == b.ty # "NoneType"
\* the candidates found in the text, each normalised to a yearly amount
Candidates == LET c == extract_salaries(MsgStr) IN [i \in 1..Len(c) |-> normalize_to_yearly(c[i])]
\* the range of a candidate, a single figure x being [x, x]
HasFigure(c) == c.min_amount.some \/ c.max_amount.some
Low(c) == IF c.min_amount.some THEN c.min_amount.v ELSE c.max_amount.v
High(c) == IF c.max_amount.some THEN c.max_amount.v ELSE c.min_amount.v
\* the candidate's range is not disjoint from the configured [min, max]
Overlaps(c) ==
    /\ HasFigure(c)
    /\ (BoundSet(flt.min_salary) => High(c) >= flt.min_salary.n)
    /\ (BoundSet(flt.max_salary) => Low(c) <= flt.max_salary.n)

\* C3: with a salary bound configured and a candidate found, the salary gate
\* accepts exactly when the yearly range of some candidate is not disjoint
\* from [min, max], a single figure x counting as [x, x]; so a single figure
\* below the minimum is rejected.
C3_SalaryRangeOverlap ==
    (SalaryGateRan /\ (BoundSet(flt.min_salary) \/ BoundSet(flt.max_salary)) /\ Candidates # <<>>)
        => (result = "accept" <=> \E i \in 1..Len(Candidates) : Overlaps(Candidates[i]))

DateMissing ==
    /\ msg.ty = "dict"
    /\ \/ ~has(msg, "date") /\ ~has(msg, "message_date")
       \/ has(msg, "date") /\ msg.d.date.ty = "NoneType"

\* C8: a message that passed the text and keyword gates and has no timestamp
\* is not rejected by the recency gate, whatever the variant and the window.
C8_AbsentDateNotRejected ==
    (trace # <<>> /\ Last(trace) = "date" /\ DateMissing) => result # "reject"

----------------------------------------------------------------------------
(* RussianJobFilter on postings that state experience, seniority and place *)

\* the longest posting, in phrases after its opening
MaxTail == 2

Openings == {"python", "python Remote"}
Tails == {"junior developer", "5 years experience", "1 year experience", "sales", "hybrid",
          "Senior"}

RussianMessages ==
    {Dict(PyStr(Join(o, t)), Absent, Absent, PyDate(Clock - 1, TRUE), Absent) :
        o \in Openings, t \in TextsOf(Tails, MaxTail)}

InitRussian ==
    /\ flt = RussianJobFilter(<<"python">>, Window)
    /\ msg \in RussianMessages
    /\ now = Clock
    /\ utcoffset = 0
    /\ pc = "text"
    /\ text = PyNone
    /\ trace = <<>>
    /\ result = "pending"
    /\ caught = FALSE
    /\ extractor_calls = 0
    /\ call = NoCall
    /\ out = NoOut

NextRussian ==
    \/ ExtractText
    \/ CheckKeywords
    \/ CheckDate
    \/ CheckExclude
    \/ CheckResume
    \/ CheckNonDeveloper
    \/ CheckExperience
    \/ CheckRemote

SpecRussian == InitRussian /\ [][NextRussian]_vars

\* the text has a junior indicator
HasJunior == \E i \in 1..Len(junior_keywords) : Contains(lower(MsgStr), junior_keywords[i])
\* the text has a remote, hybrid or work-from-home indicator, in any case
HasRemote == \E i \in 1..Len(remote_keywords) : Contains(lower(MsgStr), remote_keywords[i])
\* every number of years that some experience pattern matches somewhere in the text
StatedYears ==
    {int(m.groups[1]) : m \in UNION {
        {finditer(experience_patterns[k], lower(MsgStr))[j] :
            j \in 1..Len(finditer(experience_patterns[k], lower(MsgStr)))} :
        k \in 1..Len(experience_patterns)}}

\* C5: a message without a junior indicator whose text states more than 2
\* years of experience, by any of the experience patterns, is never accepted by
\* RussianJobFilter, whatever else the text states.
C5_MoreThanTwoYearsRejected ==
    (flt.cls = "RussianJobFilter" /\ ~HasJunior /\ \E y \in StatedYears : y > MaxYears)
        => result # "accept"

BoundActive(b) == BoundSet(b) /\ b.n # 0

----------------------------------------------------------------------------
(* matches_date_filter, called on its own *)

\* the latest hour of the clock and of a timestamp, and the widest window
MaxHour == 4

DateCalls ==
    {[fn |-> "matches_date_filter", message_date |-> PyDate(t, aw)] :
        t \in 0..MaxHour, aw \in BOOLEAN}

InitDate ==
    /\ flt \in {MessageFilter(<<"python">>, h) : h \in -1..MaxHour}
               \cup {RussianJobFilter(<<"python">>, h) : h \in -1..MaxHour}
    /\ call \in DateCalls
    /\ now \in 0..MaxHour
    /\ out = NoOut
    /\ msg = NonDict(PyNone)
    /\ utcoffset = 0
    /\ pc = "done"
    /\ text = PyNone
    /\ trace = <<>>
    /\ result = "pending"
    /\ caught = FALSE
    /\ extractor_calls = 0

CallMatchesDateFilter ==
    /\ call.fn = "matches_date_filter"
    /\ ~out.done
    /\ out' = [done |-> TRUE, r |-> matches_date_filter(flt, call.message_date, now)]
    /\ UNCHANGED <<flt, msg, now, pc, text, trace, result, caught, extractor_calls, utcoffset, call>>

NextDate == CallMatchesDateFilter

SpecDate == InitDate /\ [][NextDate]_vars

\* C9: matches_date_filter returns True for every timestamp when the window h
\* is 0 or negative; with h > 0 it returns True exactly when the timestamp t
\* is not older than the current time less h hours.
C9_DateWindow ==
    (out.done /\ call.fn = "matches_date_filter") =>
        LET h == flt.date_filter_hours
            t == call.message_date.n
        IN /\ ~out.r.exc
           /\ (h <= 0 => out.r.val = TRUE)
           /\ (h > 0 => (out.r.val <=> ~(t < now - h)))

\* a timestamp exactly h hours old has been let through by a window h > 0
C9_Witness ==
    /\ out.done /\ call.fn = "matches_date_filter"
    /\ flt.date_filter_hours > 0
    /\ call.message_date.n = now - flt.date_filter_hours
    /\ out.r.val = TRUE

----------------------------------------------------------------------------
(* has_resume_keywords, called on its own *)

\* the longest text, in phrases
MaxResumePhrases == 4

\* a separator line, as long as the window of the resume context
Separator ==
    "----------------------------------------------------------------------------------------------------"

ResumePhrases == {"my", "know", "cv", "looking for job", Separator}

InitResume ==
    /\ call \in {[fn |-> "has_resume_keywords", text |-> t] :
                    t \in TextsOf(ResumePhrases, MaxResumePhrases)}
    /\ out = NoOut
    /\ flt = RussianJobFilter(<<"python">>, Window)
    /\ msg = NonDict(PyNone)
    /\ now = Clock
    /\ utcoffset = 0
    /\ pc = "done"
    /\ text = PyNone
    /\ trace = <<>>
    /\ result = "pending"
    /\ caught = FALSE
    /\ extractor_calls = 0

CallHasResumeKeywords ==
    /\ call.fn = "has_resume_keywords"
    /\ ~out.done
    /\ out' = [done |-> TRUE, r |-> Return(has_resume_keywords(call.text))]
    /\ UNCHANGED <<flt, msg, now, pc, text, trace, result, caught, extractor_calls, utcoffset, call>>

NextResume == CallHasResumeKeywords

SpecResume == InitResume /\ [][NextResume]_vars

\* some occurrence of pronoun p starts less than 100 characters from some
\* occurrence of phrase k
PronounNear(t, k, p) ==
    \E i \in Occurrences(t, k) : \E j \in Occurrences(t, p) : Abs(i - j) < ResumeWindow

\* the text holds a resume phrase that has resume context
ResumeInContext(t) ==
    \E n \in 1..Len(resume_exclude_keywords) :
        LET k == resume_exclude_keywords[n]
        IN /\ Contains(t, k)
           /\ \/ \E d \in 1..Len(direct_indicators) : direct_indicators[d] = k
              \/ \E q \in 1..Len(personal_indicators) : PronounNear(t, k, personal_indicators[q])
              \/ \E q \in 1..Len(seeking_patterns) : search(seeking_patterns[q], t)

\* C10: the resume gate fires exactly when a resume phrase occurs in the text
\* with resume context: the phrase is a direct indicator, or some occurrence
\* of a first-person pronoun lies within 100 characters of some occurrence of
\* the phrase, or a job-seeking pattern matches anywhere in the text.
C10_ResumeContext ==
    (out.done /\ call.fn = "has_resume_keywords") =>
        (out.r.val <=> ResumeInContext(lower(call.text)))

----------------------------------------------------------------------------
(* has_non_developer_keywords, called on its own *)

\* the longest text, in phrases
MaxRolePhrases == 3

RolePhrases == {"crypto", "developer", "sales", "NFT engineer", "python"}

InitRole ==
    /\ call \in {[fn |-> "has_non_developer_keywords", text |-> t] :
                    t \in TextsOf(RolePhrases, MaxRolePhrases)}
    /\ out = NoOut
    /\ flt = RussianJobFilter(<<"python">>, Window)
    /\ msg = NonDict(PyNone)
    /\ now = Clock
    /\ utcoffset = 0
    /\ pc = "done"
    /\ text = PyNone
    /\ trace = <<>>
    /\ result = "pending"
    /\ caught = FALSE
    /\ extractor_calls = 0

CallHasNonDeveloperKeywords ==
    /\ call.fn = "has_non_developer_keywords"
    /\ ~out.done
    /\ out' = [done |-> TRUE, r |-> Return(has_non_developer_keywords(call.text))]
    /\ UNCHANGED <<flt, msg, now, pc, text, trace, result, caught, extractor_calls, utcoffset, call>>

NextRole == CallHasNonDeveloperKeywords

SpecRole == InitRole /\ [][NextRole]_vars

\* the lowercased text holds some entry of the list
Holds(t, list) == \E i \in 1..Len(list) : Contains(lower(t), list[i])

\* C11: has_non_developer_keywords is true exactly when the text holds a
\* keyword of the non-developer list, or holds a contextual keyword and no
\* developer or engineer term; a contextual keyword beside a developer term,
\* with no non-developer keyword, does not reject.
C11_NonDeveloperGate ==
    (out.done /\ call.fn = "has_non_developer_keywords") =>
        /\ out.r.val <=>
              \/ Holds(call.text, non_developer_keywords)
              \/ Holds(call.text, contextual_keywords) /\ ~Holds(call.text, developer_terms)
        /\ (/\ Holds(call.text, contextual_keywords)
            /\ Holds(call.text, developer_terms)
            /\ ~Holds(call.text, non_developer_keywords)) => ~out.r.val

\* a contextual keyword beside a developer term has been let through
C11_Witness ==
    /\ out.done /\ call.fn = "has_non_developer_keywords"
    /\ Holds(call.text, contextual_keywords)
    /\ Holds(call.text, developer_terms)
    /\ ~out.r.val

\* the text has a seniority marker, in any case
HasSeniority == \E i \in 1..Len(exclude_keywords) : Contains(lower(MsgStr), exclude_keywords[i])

\* C12: RussianJobFilter rejects every message whose text has a seniority
\* marker as a case-insensitive substring, also when the text has a junior
\* indicator, a remote indicator and an include keyword.
C12_SeniorityRejected ==
    (flt.cls = "RussianJobFilter" /\ HasSeniority)
        => /\ result # "accept"
           /\ (pc = "done" => result = "reject")

\* a posting with keyword, junior and remote indicators is rejected for "Senior"
C12_Witness ==
    /\ flt.cls = "RussianJobFilter"
    /\ HasSeniority /\ HasJunior /\ HasRemote
    /\ Passes("keywords")
    /\ trace # <<>> /\ Last(trace) = "exclude"
    /\ result = "reject"

----------------------------------------------------------------------------
(* matches_keywords, called on its own *)

\* the longest keyword list
MaxKeywords == 2

KeywordPool == {"", "Py", "java"}
KeywordTexts == {"", "python", "PYTHON dev", "Java", "rust", "x"}

\* the lists of at most n keywords of P
RECURSIVE ListsOf(_, _)
ListsOf(P, n) ==
    IF n = 0 THEN {<<>>}
    ELSE LET shorter == ListsOf(P, n - 1)
         IN shorter \cup {Append(l, k) : l \in shorter, k \in P}

\* the call keeps the keywords as they were given to the constructor
KeywordCalls ==
    {[fn |-> "matches_keywords", cls |-> c, keywords |-> K, text |-> t] :
        c \in {"MessageFilter", "RussianJobFilter"},
        K \in ListsOf(KeywordPool, MaxKeywords), t \in KeywordTexts}

InitKeywords ==
    /\ call \in KeywordCalls
    /\ flt = IF call.cls = "MessageFilter" THEN MessageFilter(call.keywords, 0)
             ELSE RussianJobFilter(call.keywords, 0)
    /\ out = NoOut
    /\ msg = NonDict(PyNone)
    /\ now = Clock
    /\ utcoffset = 0
    /\ pc = "done"
    /\ text = PyNone
    /\ trace = <<>>
    /\ result = "pending"
    /\ caught = FALSE
    /\ extractor_calls = 0

CallMatchesKeywords ==
    /\ call.fn = "matches_keywords"
    /\ ~out.done
    /\ out' = [done |-> TRUE, r |-> matches_keywords(flt, PyStr(call.text))]
    /\ UNCHANGED <<flt, msg, now, pc, text, trace, result, caught, extractor_calls, utcoffset, call>>

NextKeywords == CallMatchesKeywords

SpecKeywords == InitKeywords /\ [][NextKeywords]_vars

\* some keyword of K, lowercased, is a substring of the lowercased text
SomeKeywordIn(K, t) == \E i \in 1..Len(K) : Contains(lower(t), lower(K[i]))

\* C13: for every text T and keyword list K, the empty text, the empty list
\* and an empty-string keyword included, matches_keywords is true exactly
\* when some keyword of K, lowercased, is a substring of lowercase(T).
C13_KeywordMatch ==
    (out.done /\ call.fn = "matches_keywords") =>
        /\ ~out.r.exc
        /\ out.r.val <=> SomeKeywordIn(call.keywords, call.text)

\* C13 (amended): for every non-empty text T and keyword list K, the empty
\* list and an empty-string keyword included, matches_keywords is true
\* exactly when some keyword of K, lowercased, is a substring of
\* lowercase(T); for the empty text it is false whatever K is.
C13_KeywordMatchNonEmpty ==
    (out.done /\ call.fn = "matches_keywords") =>
        /\ ~out.r.exc
        /\ (call.text # "" => (out.r.val <=> SomeKeywordIn(call.keywords, call.text)))
        /\ (call.text = "" => ~out.r.val)

\* an upper-case text has matched a keyword given in mixed case
C13_Witness ==
    /\ out.done /\ call.fn = "matches_keywords"
    /\ call.text = "PYTHON dev"
    /\ call.keywords = <<"java", "Py">>
    /\ out.r.val

----------------------------------------------------------------------------
(* _parse_amount, called on its own *)

\* the longest token, in characters
MaxTokenLen == 4

TokenChars == {"5", ".", ",", "k", "a", " "}

\* the tokens of at most n characters
RECURSIVE TokensOf(_)
TokensOf(n) ==
    IF n = 0 THEN {""}
    ELSE LET shorter == TokensOf(n - 1)
         IN shorter \cup {t \o c : t \in shorter, c \in TokenChars}

\* the tokens of the documented examples
TokenExamples == {"50k", "50K", "50,000", "50000", "100k", "1.5k", "abc", "50abc", "abc50"}

InitAmount ==
    /\ call \in {[fn |-> "_parse_amount", amount_str |-> t] :
                    t \in TokensOf(MaxTokenLen) \cup TokenExamples}
    /\ out = NoOut
    /\ flt = MessageFilter(<<"python">>, 0)
    /\ msg = NonDict(PyNone)
    /\ now = Clock
    /\ utcoffset = 0
    /\ pc = "done"
    /\ text = PyNone
    /\ trace = <<>>
    /\ result = "pending"
    /\ caught = FALSE
    /\ extractor_calls = 0

CallParseAmount ==
    /\ call.fn = "_parse_amount"
    /\ ~out.done
    /\ out' = [done |-> TRUE, r |-> _parse_amount(call.amount_str)]
    /\ UNCHANGED <<flt, msg, now, pc, text, trace, result, caught, extractor_calls, utcoffset, call>>

NextAmount == CallParseAmount

SpecAmount == InitAmount /\ [][NextAmount]_vars

\* the token ends in k or K
EndsInK(t) == Len(t) > 0 /\ CharAt(t, Len(t)) \in {"k", "K"}
\* the token without its separators, outer spaces and k shorthand
Remainder(t) ==
    LET bare == strip(RemoveCommas(t))
    IN IF EndsInK(bare) THEN SubSeq(bare, 1, Len(bare) - 1) ELSE bare
\* the remainder is a number: digits, with at most one point
Numeric(r) == ~Decimal(r).exc
\* the value of the number r, times 1000
Thousandfold(r) ==
    LET d == Decimal(r)
        digits == IF Len(d.frac) >= 3 THEN d.frac
                  ELSE d.frac \o SubSeq("000", 1, 3 - Len(d.frac))
    IN Dec(d.val * 1000 + int(SubSeq(digits, 1, 3)), StripZeros(SubSeq(digits, 4, Len(digits))))

\* C16: for a numeric token, _parse_amount returns the exact value of the
\* token without its thousands separators, times 1000 when the token ends in
\* k or K, fractional tokens included: "1.5k" gives 1500.
C16_AmountValue ==
    (out.done /\ call.fn = "_parse_amount" /\ Numeric(Remainder(call.amount_str))) =>
        out.r = IF EndsInK(strip(RemoveCommas(call.amount_str)))
                THEN Thousandfold(Remainder(call.amount_str))
                ELSE LET d == Decimal(Remainder(call.amount_str)) IN Dec(d.val, d.frac)

\* C17: for every token that is empty, or whose remainder without separators
\* and k shorthand is empty or no number, _parse_amount returns None.
C17_AmountFailure ==
    (out.done /\ call.fn = "_parse_amount" /\ ~Numeric(Remainder(call.amount_str))) =>
        out.r = None

----------------------------------------------------------------------------
(* extract_salaries, called on its own *)

\* a salary expression: a lead-in, a symbol, an amount and what follows it
LeadIns == {"", "salary from "}
Symbols == {"", "$", "£"}
Amounts == {"50k", "50,000", "50 k", "80k", "100000"}
Follows == {"", "-80k", "-$80k", "-80,000", " to $80k", " USD", "-80k USD", " per month",
            ", also $50k", "/week", " per month today", " inr", " pound"}

SalaryTexts == {l \o y \o a \o f : l \in LeadIns, y \in Symbols, a \in Amounts, f \in Follows}

InitExtract ==
    /\ call \in {[fn |-> "extract_salaries", text |-> t] : t \in SalaryTexts}
    /\ out = NoOut
    /\ flt = MessageFilter(<<"python">>, 0)
    /\ msg = NonDict(PyNone)
    /\ now = Clock
    /\ utcoffset = 0
    /\ pc = "done"
    /\ text = PyNone
    /\ trace = <<>>
    /\ result = "pending"
    /\ caught = FALSE
    /\ extractor_calls = 0

CallExtractSalaries ==
    /\ call.fn = "extract_salaries"
    /\ ~out.done
    /\ out' = [done |-> TRUE, r |-> extract_salaries(call.text)]
    /\ UNCHANGED <<flt, msg, now, pc, text, trace, result, caught, extractor_calls, utcoffset, call>>

NextExtract == CallExtractSalaries

SpecExtract == InitExtract /\ [][NextExtract]_vars

\* texts whose salary expression is a range, with its endpoints
RangeExamples ==
    {[text |-> "$50k-$80k", lower |-> 50000, upper |-> 80000],
     [text |-> "£50,000-80,000", lower |-> 50000, upper |-> 80000],
     [text |-> "$50k-80k", lower |-> 50000, upper |-> 80000],
     [text |-> "salary from $50k to $80k", lower |-> 50000, upper |-> 80000]}

\* C15: for a text whose salary expression is a range, with the symbol on one
\* or on both endpoints, the first candidate extract_salaries returns is that
\* range: is_range is true, min_amount the lower and max_amount the upper
\* endpoint.
C15_PrimaryIsRange ==
    \A e \in RangeExamples :
        (out.done /\ call.fn = "extract_salaries" /\ call.text = e.text) =>
            /\ Len(out.r) > 0
            /\ out.r[1].is_range
            /\ out.r[1].min_amount = Some(e.lower)
            /\ out.r[1].max_amount = Some(e.upper)

\* C18: every candidate extract_salaries returns has min_amount or
\* max_amount present; a match whose amount does not parse gives no
\* candidate.
C18_SomeAmountPresent ==
    (out.done /\ call.fn = "extract_salaries") =>
        \A i \in 1..Len(out.r) : out.r[i].min_amount.some \/ out.r[i].max_amount.some

\* C20: for every candidate extract_salaries returns, is_range true means
\* both min_amount and max_amount are present, and is_range false means
\* exactly one figure is present.
C20_IsRangeMeansTwoEndpoints ==
    (out.done /\ call.fn = "extract_salaries") =>
        \A i \in 1..Len(out.r) :
            LET c == out.r[i]
            IN /\ c.is_range => (c.min_amount.some /\ c.max_amount.some)
               /\ ~c.is_range => (c.min_amount.some /= c.max_amount.some)

\* C23: the list extract_salaries returns has no two candidates with the same
\* min_amount, max_amount, currency and period; a figure that the text
\* mentions several times is in the list once.
C23_NoDuplicateFigures ==
    (out.done /\ call.fn = "extract_salaries") =>
        \A i, j \in 1..Len(out.r) :
            (/\ out.r[i].min_amount = out.r[j].min_amount
             /\ out.r[i].max_amount = out.r[j].max_amount
             /\ out.r[i].currency = out.r[j].currency
             /\ out.r[i].period = out.r[j].period) => i = j

\* the text names 50k dollars twice and one candidate has come back
C23_Witness ==
    /\ call.fn = "extract_salaries"
    /\ call.text = "$50k, also $50k"
    /\ out.done
    /\ Len(out.r) = 1
    /\ out.r[1].min_amount = Some(50000)

\* amounts written as a run of digits, and their value
DigitRunExamples ==
    {[text |-> "$100000", amount |-> 100000],
     [text |-> "100000 USD", amount |-> 100000],
     [text |-> "salary from $100000", amount |-> 100000]}

\* C24: an amount written as a plain run of digits without thousands
\* separators is extracted with the value of the whole run.
C24_WholeDigitRun ==
    \A e \in DigitRunExamples :
        (out.done /\ call.fn = "extract_salaries" /\ call.text = e.text) =>
            /\ Len(out.r) > 0
            /\ \A i \in 1..Len(out.r) : out.r[i].min_amount = Some(e.amount)

\* salaries directly followed by a period phrase, and the period it names
PeriodExamples ==
    {[text |-> "$50k per month", period |-> "monthly"],
     [text |-> "$50k/week", period |-> "weekly"],
     [text |-> "$50k per month today", period |-> "monthly"],
     [text |-> "salary from $50k per month", period |-> "monthly"]}

\* C25: a salary directly followed by an explicit period phrase is given that
\* period whatever other words stand near it, and a salary with no period
\* keyword within 100 characters is yearly.
C25_PeriodOfPhrase ==
    (out.done /\ call.fn = "extract_salaries") =>
        /\ \A e \in PeriodExamples :
              call.text = e.text =>
                  /\ Len(out.r) > 0
                  /\ \A i \in 1..Len(out.r) : out.r[i].period = e.period
        /\ (\A p \in 1..Len(period_names) : ~AnyIn(period_keywords[p], lower(call.text))) =>
              \A i \in 1..Len(out.r) : out.r[i].period = "yearly"

\* salaries with a currency symbol, code or word, and the code of the currency
CurrencyExamples ==
    {[text |-> "$50k", currency |-> "USD"],
     [text |-> "£50k", currency |-> "GBP"],
     [text |-> "50k USD", currency |-> "USD"],
     [text |-> "50k inr", currency |-> "INR"],
     [text |-> "50k pound", currency |-> "GBP"]}

\* C26: for every currency symbol, code or word the salary patterns match,
\* the candidate's currency is the 3-letter code of that currency; USD comes
\* only from a USD token.
C26_CurrencyCode ==
    \A e \in CurrencyExamples :
        (out.done /\ call.fn = "extract_salaries" /\ call.text = e.text) =>
            /\ Len(out.r) > 0
            /\ \A i \in 1..Len(out.r) : out.r[i].currency = e.currency

----------------------------------------------------------------------------
(* SalaryRange objects: built, normalised and filtered *)

\* the most objects built on top of the list the run starts with
MaxSalaries == 2

\* the amounts and periods an object is built from
RangeAmounts == {None, Some(0), Some(3000), Some(50000)}
RangePeriods == {"yearly", "month"}
\* the bounds filter_by_range is called with
MinBounds == {None, Some(40000)}
MaxBounds == {None, Some(60000)}

\* yearly single figures 30000, 50000 and 80000
YearlySingles ==
    << SalaryRangeInit(Some(30000), None, "USD", "yearly", FALSE, ""),
       SalaryRangeInit(Some(50000), None, "USD", "yearly", FALSE, ""),
       SalaryRangeInit(Some(80000), None, "USD", "yearly", FALSE, "") >>

InitRange ==
    /\ call \in {[fn |-> "filter_by_range", salaries |-> l] : l \in {<<>>, YearlySingles}}
    /\ out = NoOut
    /\ flt = MessageFilter(<<"python">>, 0)
    /\ msg = NonDict(PyNone)
    /\ now = Clock
    /\ utcoffset = 0
    /\ pc = "done"
    /\ text = PyNone
    /\ trace = <<>>
    /\ result = "pending"
    /\ caught = FALSE
    /\ extractor_calls = 0

\* SalaryRange(min_amount, max_amount, 'usd', period, ...), added to the list
Construct(min_amount, max_amount, period) ==
    /\ call.fn = "filter_by_range"
    /\ Len(call.salaries) < MaxSalaries
    /\ call' = [call EXCEPT !.salaries =
                   Append(@, SalaryRangeInit(min_amount, max_amount, "usd", period,
                                             min_amount.some /\ max_amount.some, ""))]
    /\ UNCHANGED <<flt, msg, now, pc, text, trace, result, caught, extractor_calls, utcoffset, out>>

\* normalize_to_yearly(salaries[i]): the object is updated in place
Normalize(i) ==
    /\ call.fn = "filter_by_range"
    /\ i \in 1..Len(call.salaries)
    /\ call' = [call EXCEPT !.salaries[i] = normalize_to_yearly(@)]
    /\ UNCHANGED <<flt, msg, now, pc, text, trace, result, caught, extractor_calls, utcoffset, out>>

\* filter_by_range(salaries, min_salary, max_salary): every object of the list
\* is normalised in place, and the returned list holds the objects kept
FilterByRange(min_salary, max_salary) ==
    /\ call.fn = "filter_by_range"
    /\ call.salaries # <<>>
    /\ LET yearly == [i \in 1..Len(call.salaries) |-> normalize_to_yearly(call.salaries[i])]
       IN /\ call' = [call EXCEPT !.salaries = yearly]
          /\ out' = [done |-> TRUE,
                     r |-> filter_by_range(call.salaries, min_salary, max_salary),
                     given |-> yearly,
                     min_salary |-> min_salary,
                     max_salary |-> max_salary]
    /\ UNCHANGED <<flt, msg, now, pc, text, trace, result, caught, extractor_calls, utcoffset>>

NextRange ==
    \/ \E a \in RangeAmounts, b \in RangeAmounts, p \in RangePeriods : Construct(a, b, p)
    \/ \E i \in 1..(MaxSalaries + Len(YearlySingles)) : Normalize(i)
    \/ \E a \in MinBounds, b \in MaxBounds : FilterByRange(a, b)

SpecRange == InitRange /\ [][NextRange]_vars

\* the yearly range of the candidate is not disjoint from the bounds given
InBounds(c, min_salary, max_salary) ==
    /\ (min_salary.some => High(c) >= min_salary.v)
    /\ (max_salary.some => Low(c) <= max_salary.v)

\* C14: filter_by_range keeps exactly the candidates whose yearly maximum is
\* at least min (when min is given) and whose yearly minimum is at most max
\* (when max is given), a single figure being both its minimum and its
\* maximum; of the yearly single figures 30000, 50000 and 80000 with min 40000
\* and max 60000 only 50000 is kept.
C14_FilterByRange ==
    (out.done /\ call.fn = "filter_by_range" /\ \A i \in 1..Len(out.given) : HasFigure(out.given[i])) =>
        LET within(c) == InBounds(c, out.min_salary, out.max_salary)
        IN out.r = SelectSeq(out.given, within)

\* every SalaryRange of the sequence with both endpoints has them in order
Ordered(l) ==
    \A i \in 1..Len(l) :
        (l[i].min_amount.some /\ l[i].max_amount.some) => l[i].min_amount.v <= l[i].max_amount.v

\* C19: a SalaryRange with both endpoints has min_amount <= max_amount once
\* built, whatever the order they were given in, and still has after
\* normalize_to_yearly and filter_by_range, however often they are applied.
C19_EndpointsOrdered ==
    call.fn = "filter_by_range" =>
        /\ Ordered(call.salaries)
        /\ out.done => Ordered(out.r)

\* a range given per month as 50000 and 3000 has been built, normalised to a
\* year and kept by filter_by_range
C19_Witness ==
    /\ call.fn = "filter_by_range"
    /\ out.done
    /\ \E i \in 1..Len(out.r) :
          /\ out.r[i].min_amount = Some(36000)
          /\ out.r[i].max_amount = Some(600000)
          /\ out.r[i].period = "yearly"

----------------------------------------------------------------------------
(* normalize_to_yearly, called on its own *)

NormalizeAmounts == {None, Some(0), Some(25), Some(4000)}
NormalizePeriods == {"hourly", "daily", "weekly", "monthly", "yearly"}

InitNormalize ==
    /\ call \in {[fn |-> "normalize_to_yearly",
                  salary |-> SalaryRangeInit(a, b, "USD", p, a.some /\ b.some, "")] :
                    a \in NormalizeAmounts, b \in NormalizeAmounts, p \in NormalizePeriods}
    /\ out = NoOut
    /\ flt = MessageFilter(<<"python">>, 0)
    /\ msg = NonDict(PyNone)
    /\ now = Clock
    /\ utcoffset = 0
    /\ pc = "done"
    /\ text = PyNone
    /\ trace = <<>>
    /\ result = "pending"
    /\ caught = FALSE
    /\ extractor_calls = 0

\* normalized = normalize_to_yearly(salary): arg is the salary as it was
\* passed, r the value returned; the object passed is the one updated
CallNormalizeToYearly ==
    /\ call.fn = "normalize_to_yearly"
    /\ out' = [done |-> TRUE, arg |-> call.salary, r |-> normalize_to_yearly(call.salary)]
    /\ call' = [call EXCEPT !.salary = normalize_to_yearly(@)]
    /\ UNCHANGED <<flt, msg, now, pc, text, trace, result, caught, extractor_calls, utcoffset>>

NextNormalize == CallNormalizeToYearly

SpecNormalize == InitNormalize /\ [][NextNormalize]_vars

\* the yearly multiple of each period
YearlyFactor(period) ==
    CASE period = "hourly" -> 2080
      [] period = "daily" -> 260
      [] period = "weekly" -> 52
      [] period = "monthly" -> 12
      [] period = "yearly" -> 1

Times(a, factor) == IF a.some THEN Some(a.v * factor) ELSE None

\* C21: normalize_to_yearly returns a value of period yearly whose present
\* endpoints are those of the input times the factor of the input's period
\* (hourly 2080, daily 260, weekly 52, monthly 12, yearly 1); normalising a
\* value that is yearly already returns it unchanged.
C21_NormalizeToYearly ==
    (out.done /\ call.fn = "normalize_to_yearly") =>
        /\ out.r.period = "yearly"
        /\ out.r.min_amount = Times(out.arg.min_amount, YearlyFactor(out.arg.period))
        /\ out.r.max_amount = Times(out.arg.max_amount, YearlyFactor(out.arg.period))
        /\ out.arg.period = "yearly" => out.r = out.arg

\* an hourly range of 25 to 4000 has come back as 52000 to 8320000 a year
C21_Witness ==
    /\ call.fn = "normalize_to_yearly"
    /\ out.done
    /\ out.arg.period = "hourly"
    /\ out.arg.min_amount = Some(25)
    /\ out.arg.max_amount = Some(4000)
    /\ out.r.min_amount = Some(52000)
    /\ out.r.max_amount = Some(8320000)

\* C22: normalize_to_yearly does not change the SalaryRange it is given:
\* after the call the object passed in still has the period, min_amount and
\* max_amount it had when it was passed.
C22_InputNotMutated ==
    (out.done /\ call.fn = "normalize_to_yearly") =>
        /\ call.salary.period = out.arg.period
        /\ call.salary.min_amount = out.arg.min_amount
        /\ call.salary.max_amount = out.arg.max_amount

----------------------------------------------------------------------------
(* get_experience_info, called on its own *)

\* the longest text, in phrases
MaxInfoPhrases == 3

InfoPhrases == {"Junior developer", "python", "remote", "5 years experience", "2 years experience", "sales"}

InitInfo ==
    /\ call \in {[fn |-> "get_experience_info", text |-> t] :
                    t \in TextsOf(InfoPhrases, MaxInfoPhrases)}
    /\ out = NoOut
    /\ flt = RussianJobFilter(<<"python">>, Window)
    /\ msg = NonDict(PyNone)
    /\ now = Clock
    /\ utcoffset = 0
    /\ pc = "done"
    /\ text = PyNone
    /\ trace = <<>>
    /\ result = "pending"
    /\ caught = FALSE
    /\ extractor_calls = 0

CallGetExperienceInfo ==
    /\ call.fn = "get_experience_info"
    /\ ~out.done
    /\ out' = [done |-> TRUE, r |-> get_experience_info(call.text)]
    /\ UNCHANGED <<flt, msg, now, pc, text, trace, result, caught, extractor_calls, utcoffset, call>>

NextInfo == CallGetExperienceInfo

SpecInfo == InitInfo /\ [][NextInfo]_vars

\* C29: in what get_experience_info returns, meets_requirements true implies
\* is_remote true: a posting the remote gate would reject is never reported
\* as meeting the requirements.
C29_MeetsImpliesRemote ==
    (out.done /\ call.fn = "get_experience_info" /\ ~out.r.empty) =>
        (out.r.meets_requirements => (out.r.is_remote /\ matches_remote_requirement(call.text)))

----------------------------------------------------------------------------
(* scheduler.py: JobScheduler.run_scheduled *)

\* the clock is in minutes; the run ends when it reaches MaxClock
MinutesPerDay == 1440
StartClock == 1380
MaxClock == 1470

\* asyncio.sleep(60) and asyncio.sleep(300), in minutes
CheckSleep == 1
RetrySleep == 5

\* how long a call of the job function may take, in minutes
JobDurations == {0, 1, 45}

\* datetime.now().date() and .weekday(), day 0 being a Monday
date(clock) == clock \div MinutesPerDay
weekday(clock) == date(clock) % 7
minute_of_day(clock) == clock % MinutesPerDay

\* ScheduleConfig; start_time and end_time are None or the minute of the day
ScheduleConfig(interval_minutes, start_time, end_time, days_of_week, max_runs_per_day) ==
    [interval_minutes |-> interval_minutes, start_time |-> start_time, end_time |-> end_time,
     days_of_week |-> days_of_week, max_runs_per_day |-> max_runs_per_day]

\* JobScheduler(config)
JobScheduler(config) ==
    [config |-> config, running |-> FALSE, last_run |-> PyNone, runs_today |-> 0,
     last_run_date |-> PyNone]

_is_within_time_window(self, clock) ==
    /\ ~(self.config.start_time.ty = "int" /\ minute_of_day(clock) < self.config.start_time.n)
    /\ ~(self.config.end_time.ty = "int" /\ minute_of_day(clock) > self.config.end_time.n)

_is_allowed_day(self, clock) ==
    IF self.config.days_of_week = {} THEN TRUE ELSE weekday(clock) \in self.config.days_of_week

\* the scheduler after _can_run_today, and what it returns
_can_run_today(self, clock) ==
    IF ~Truthy(self.config.max_runs_per_day) THEN [self |-> self, r |-> TRUE]
    ELSE LET today == PyInt(date(clock))
             reset == IF self.last_run_date # today
                      THEN [self EXCEPT !.runs_today = 0, !.last_run_date = today]
                      ELSE self
         IN [self |-> reset, r |-> reset.runs_today < self.config.max_runs_per_day.n]

\* the scheduler after _should_run_now, and what it returns
_should_run_now(self, clock) ==
    IF ~_is_within_time_window(self, clock) THEN [self |-> self, r |-> FALSE]
    ELSE IF ~_is_allowed_day(self, clock) THEN [self |-> self, r |-> FALSE]
    ELSE LET can == _can_run_today(self, clock)
         IN IF ~can.r THEN can
            ELSE IF /\ can.self.last_run.ty # "NoneType"
                    /\ clock - can.self.last_run.n < can.self.config.interval_minutes
                 THEN [self |-> can.self, r |-> FALSE]
                 ELSE [self |-> can.self, r |-> TRUE]

ScheduleConfigs ==
    {ScheduleConfig(30, PyNone, PyNone, d, PyInt(m)) : d \in {{}, 0..6}, m \in {1, 2}}

\* call holds the scheduler, the clock and where run_scheduled stands; out
\* holds the date of every start of the job function
InitScheduler ==
    /\ call \in {[fn |-> "run_scheduled", self |-> JobScheduler(c), clock |-> StartClock,
                  at |-> "start", wake |-> 0] : c \in ScheduleConfigs}
    /\ out = [done |-> FALSE, starts |-> <<>>]
    /\ flt = MessageFilter(<<"python">>, 0)
    /\ msg = NonDict(PyNone)
    /\ now = Clock
    /\ utcoffset = 0
    /\ pc = "done"
    /\ text = PyNone
    /\ trace = <<>>
    /\ result = "pending"
    /\ caught = FALSE
    /\ extractor_calls = 0

\* self.running = True
RunScheduled ==
    /\ call.fn = "run_scheduled"
    /\ call.at = "start"
    /\ call' = [call EXCEPT !.self.running = TRUE, !.at = "loop"]
    /\ UNCHANGED <<flt, msg, now, pc, text, trace, result, caught, extractor_calls, utcoffset, out>>

\* while self.running: if self._should_run_now(): the job function is
\* started; else: asyncio.sleep(60)
LoopCheck ==
    /\ call.fn = "run_scheduled"
    /\ call.at = "loop"
    /\ IF ~call.self.running
       THEN /\ call' = [call EXCEPT !.at = "exit"]
            /\ out' = [out EXCEPT !.done = TRUE]
       ELSE LET should == _should_run_now(call.self, call.clock)
            IN IF should.r
               THEN /\ call' = [call EXCEPT !.self = should.self, !.at = "job"]
                    /\ out' = [out EXCEPT !.starts = Append(@, date(call.clock))]
               ELSE /\ call' = [call EXCEPT !.self = should.self, !.at = "sleep",
                                            !.wake = call.clock + CheckSleep]
                    /\ out' = out
    /\ UNCHANGED <<flt, msg, now, pc, text, trace, result, caught, extractor_calls, utcoffset>>

\* await job_function() returns after d minutes: the run is counted and the
\* loop sleeps for the interval
JobReturns(d) ==
    /\ call.fn = "run_scheduled"
    /\ call.at = "job"
    /\ call.clock + d <= MaxClock
    /\ call' = [call EXCEPT !.clock = @ + d,
                            !.self.last_run = PyInt(call.clock + d),
                            !.self.runs_today = @ + 1,
                            !.at = "sleep",
                            !.wake = call.clock + d + call.self.config.interval_minutes]
    /\ UNCHANGED <<flt, msg, now, pc, text, trace, result, caught, extractor_calls, utcoffset, out>>

\* await job_function() raises after d minutes: except Exception, sleep(300)
JobRaises(d) ==
    /\ call.fn = "run_scheduled"
    /\ call.at = "job"
    /\ call.clock + d <= MaxClock
    /\ call' = [call EXCEPT !.clock = @ + d, !.at = "sleep", !.wake = call.clock + d + RetrySleep]
    /\ UNCHANGED <<flt, msg, now, pc, text, trace, result, caught, extractor_calls, utcoffset, out>>

\* the sleep is over, late minutes after the time asked for
Wake(late) ==
    /\ call.fn = "run_scheduled"
    /\ call.at = "sleep"
    /\ call.wake + late <= MaxClock
    /\ call' = [call EXCEPT !.clock = call.wake + late, !.at = "loop"]
    /\ UNCHANGED <<flt, msg, now, pc, text, trace, result, caught, extractor_calls, utcoffset, out>>

\* stop()
Stop ==
    /\ call.fn = "run_scheduled"
    /\ call.self.running
    /\ call' = [call EXCEPT !.self.running = FALSE]
    /\ UNCHANGED <<flt, msg, now, pc, text, trace, result, caught, extractor_calls, utcoffset, out>>

NextScheduler ==
    \/ RunScheduled
    \/ LoopCheck
    \/ \E d \in JobDurations : JobReturns(d)
    \/ \E d \in JobDurations : JobRaises(d)
    \/ \E late \in {0, 1} : Wake(late)
    \/ Stop

SpecScheduler == InitScheduler /\ [][NextScheduler]_vars

\* how often the job function was started on day d
StartsOn(d) == Cardinality({i \in 1..Len(out.starts) : out.starts[i] = d})

\* C30: with max_runs_per_day configured, run_scheduled starts the job
\* function at most max_runs_per_day times on any one calendar day, whether
\* the job returns or raises and however the clock advances.
C30_DailyCap ==
    call.fn = "run_scheduled" =>
        \A d \in 0..date(MaxClock) : StartsOn(d) <= call.self.config.max_runs_per_day.n

----------------------------------------------------------------------------
(* filter_message called again on the same message, the clock going on *)

\* the most calls on one message, and how far the clock goes, in hours
MaxAttempts == 2
MaxDelay == 3

RetryMessages ==
    {Dict(PyStr(t), Absent, Absent, d, Absent) :
        t \in {"python remote", "java"},
        d \in {Absent, PyNone, PyDate(Clock - 1, TRUE), PyDate(Clock - 1, FALSE),
               PyDate(Clock - Window - 1, TRUE), PyStr("yesterday")}}

RetryFilters ==
    {MessageFilter(<<"python">>, h) : h \in {0, Window}}
    \cup {RussianJobFilter(<<"python">>, Window),
          AdvancedFilter(<<"python">>, Window, <<"Senior">>, PyNone, PyNone)}

InitRetry ==
    /\ flt \in RetryFilters
    /\ msg \in RetryMessages
    /\ now = Clock
    /\ utcoffset \in UtcOffsets
    /\ call = [fn |-> "filter_message", attempts |-> <<>>]
    /\ out = NoOut
    /\ pc = "done"
    /\ text = PyNone
    /\ trace = <<>>
    /\ result = "pending"
    /\ caught = FALSE
    /\ extractor_calls = 0

\* filter_message(message), called when the clock reads now
Attempt ==
    /\ call.fn = "filter_message"
    /\ Len(call.attempts) < MaxAttempts
    /\ call' = [call EXCEPT !.attempts =
                   Append(@, [at |-> now, r |-> filter_message(flt, msg, now, utcoffset)])]
    /\ UNCHANGED <<flt, msg, now, pc, text, trace, result, caught, extractor_calls, utcoffset, out>>

\* an hour passes
Tick ==
    /\ call.fn = "filter_message"
    /\ now < Clock + MaxDelay
    /\ now' = now + 1
    /\ UNCHANGED <<flt, msg, pc, text, trace, result, caught, extractor_calls, utcoffset, call, out>>

NextRetry == Attempt \/ Tick

SpecRetry == InitRetry /\ [][NextRetry]_vars

\* C28: for a fixed filter and a fixed message every call of filter_message
\* returns the same result, so a retry at any later time gives the result of
\* the first attempt.
C28_SameResultOnRetry ==
    call.fn = "filter_message" =>
        \A i, j \in 1..Len(call.attempts) : call.attempts[i].r = call.attempts[j].r

\* the timestamp the message carries
Stamp ==
    IF has(msg, "date") THEN msg.d.date
    ELSE IF has(msg, "message_date") THEN msg.d.message_date
    ELSE Absent

\* at hour t the message is not older than the window: it has no timestamp
\* to be too old by, there is no window, or its timestamp is t less the
\* window or later
Recent(t) ==
    ~(/\ Stamp.ty = "datetime"
      /\ flt.date_filter_hours > 0
      /\ Stamp.n < t - flt.date_filter_hours)

\* C28 (amended): two calls of filter_message on the same message with the
\* same filter return the same result whenever the message is on the same
\* side of the date window at both; the time of the call matters in no other
\* way.
C28_SameResultWithinWindow ==
    call.fn = "filter_message" =>
        \A i, j \in 1..Len(call.attempts) :
            Recent(call.attempts[i].at) = Recent(call.attempts[j].at)
                => call.attempts[i].r = call.attempts[j].r

\* a message with a timestamp was accepted twice, hours apart, by a filter
\* with a window
C28_Witness ==
    /\ call.fn = "filter_message"
    /\ Len(call.attempts) = 2
    /\ call.attempts[1].at < call.attempts[2].at
    /\ call.attempts[1].r = "accept"
    /\ call.attempts[2].r = "accept"
    /\ Stamp.ty = "datetime"
    /\ flt.date_filter_hours > 0

----------------------------------------------------------------------------
(* filter_message called by parallel workers on one filter instance *)

\* the number of workers
MaxWorkers == 2

\* the messages the workers are given; two workers may get equal texts
WorkerTexts == {"python $5k per month", "python 1k-2k USD per month", "python $90k", "java"}
WorkerMessages ==
    {Dict(PyStr(t), Absent, Absent, PyDate(Clock, TRUE), Absent) : t \in WorkerTexts}

WorkerFilters ==
    {AdvancedFilter(<<"python">>, Window, <<"Senior">>, PyInt(40000), PyInt(80000)),
     RussianJobFilter(<<"python">>, Window)}

\* (a variant in which the extractor hands out again the objects it made for
\* the same raw text)
extract_salaries_cached(heap, txt) ==
    LET c == extract_salaries(txt)
        cell(i) == {j \in 1..Len(heap) : heap[j].raw_text = c[i].raw_text}
    IN IF c # <<>> /\ \A i \in 1..Len(c) : cell(i) # {}
       THEN [heap |-> heap, ids |-> [i \in 1..Len(c) |-> Min(cell(i))]]
       ELSE [heap |-> heap \o c, ids |-> [i \in 1..Len(c) |-> Len(heap) + i]]

\* salary_extractor.extract_salaries(text): every call builds new SalaryRange
\* objects; heap is the objects there are, ids the ones this call returns
extract_salaries_into(heap, txt) ==
    LET c == extract_salaries(txt)
    IN [heap |-> heap \o c, ids |-> [i \in 1..Len(c) |-> Len(heap) + i]]

\* a worker about to call filter_message(message)
Worker(message) ==
    [message |-> message, at |-> "text", result |-> "pending", salaries |-> <<>>, k |-> 0, factor |-> 1]

RECURSIVE WorkersOf(_)
WorkersOf(n) ==
    IF n = 0 THEN {<<>>}
    ELSE {Append(l, Worker(m)) : l \in WorkersOf(n - 1), m \in WorkerMessages}

InitWorkers ==
    /\ flt \in WorkerFilters
    /\ call \in {[fn |-> "workers", w |-> l, heap |-> <<>>] : l \in WorkersOf(MaxWorkers)}
    /\ out = NoOut
    /\ msg = NonDict(PyNone)
    /\ now = Clock
    /\ utcoffset = 0
    /\ pc = "done"
    /\ text = PyNone
    /\ trace = <<>>
    /\ result = "pending"
    /\ caught = FALSE
    /\ extractor_calls = 0

\* the call of worker i ends with result r
Returns(i, r) == [call EXCEPT !.w[i].at = "done", !.w[i].result = r]

\* worker i at a gate with the given outcome: return False, return True
\* after the last gate, or go on to the next gate
Gated(i, gate, outcome) ==
    IF outcome # "pass" THEN Returns(i, verdict(flt.cls, gate, outcome))
    ELSE IF after(flt.cls, gate) = "done" THEN Returns(i, "accept")
    ELSE [call EXCEPT !.w[i].at = after(flt.cls, gate)]

\* worker i evaluates its next gate; at the salary gate with a bound
\* configured it goes on to _matches_salary_range
WorkerGate(i) ==
    LET gate == call.w[i].at
        configured == Truthy(flt.min_salary) \/ Truthy(flt.max_salary)
    IN /\ gate \in {"text", "keywords", "date", "exclude", "resume", "non_developer",
                    "experience", "remote", "adv_exclude", "salary"}
       /\ IF gate = "salary"
          THEN call' = IF configured THEN [call EXCEPT !.w[i].at = "extract"]
                       ELSE Gated(i, gate, "pass")
          ELSE call' = Gated(i, gate, gate_outcome(flt, call.w[i].message, now, utcoffset, gate))

\* worker i with the list e.ids that extract_salaries returned:
\* if not salaries: return False
Extracted(i, e) ==
    IF e.ids = <<>> THEN Returns(i, "reject")
    ELSE [call EXCEPT !.heap = e.heap, !.w[i].salaries = e.ids,
                      !.w[i].k = 1, !.w[i].at = "n_check"]

\* salaries = salary_extractor.extract_salaries(text)
WorkerExtract(i) ==
    /\ call.w[i].at = "extract"
    /\ call' = Extracted(i, extract_salaries_into(call.heap,
                                _extract_message_text(call.w[i].message).val.s))

\* normalize_to_yearly(salary), statement by statement, on the object itself
WorkerNormalize(i) ==
    LET me == call.w[i]
        id == me.salaries[me.k]
        salary == call.heap[id]
    IN /\ me.at \in {"n_check", "n_min", "n_max", "n_period"}
       /\ CASE me.at = "n_check" ->
                 IF salary.period = "yearly" THEN call' = [call EXCEPT !.w[i].at = "compare"]
                 ELSE call' = [call EXCEPT !.w[i].at = "n_min",
                                           !.w[i].factor = conversions_get(salary.period)]
            [] me.at = "n_min" ->
                 call' = [call EXCEPT !.w[i].at = "n_max",
                             !.heap[id].min_amount =
                                 IF AmountTruthy(@) THEN Some(@.v * me.factor) ELSE @]
            [] me.at = "n_max" ->
                 call' = [call EXCEPT !.w[i].at = "n_period",
                             !.heap[id].max_amount =
                                 IF AmountTruthy(@) THEN Some(@.v * me.factor) ELSE @]
            [] me.at = "n_period" ->
                 call' = [call EXCEPT !.w[i].at = "compare", !.heap[id].period = "yearly"]

\* the two tests on yearly_salary: return True, or continue with the next
\* salary, or return False after the last
WorkerCompare(i) ==
    LET me == call.w[i]
        yearly_salary == call.heap[me.salaries[me.k]]
        below == /\ Truthy(flt.min_salary)
                 /\ AmountTruthy(yearly_salary.max_amount)
                 /\ yearly_salary.max_amount.v < flt.min_salary.n
        above == /\ Truthy(flt.max_salary)
                 /\ AmountTruthy(yearly_salary.min_amount)
                 /\ yearly_salary.min_amount.v > flt.max_salary.n
    IN /\ me.at = "compare"
       /\ IF ~below /\ ~above THEN call' = Returns(i, "accept")
          ELSE IF me.k = Len(me.salaries) THEN call' = Returns(i, "reject")
          ELSE call' = [call EXCEPT !.w[i].k = @ + 1, !.w[i].at = "n_check"]

\* what a step of a worker leaves alone
Others == UNCHANGED <<flt, msg, now, pc, text, trace, result, caught, extractor_calls, utcoffset, out>>

NextWorkers ==
    \E i \in 1..MaxWorkers :
        \/ WorkerGate(i) /\ Others
        \/ WorkerExtract(i) /\ Others
        \/ WorkerNormalize(i) /\ Others
        \/ WorkerCompare(i) /\ Others

SpecWorkers == InitWorkers /\ [][NextWorkers]_vars

\* the SalaryRange objects worker i holds
Held(i) == {call.w[i].salaries[j] : j \in 1..Len(call.w[i].salaries)}

\* C27: however the filter_message calls of parallel workers on one filter
\* instance and one salary extractor interleave, each call returns what it
\* returns when run alone, and no call works on an object another call holds.
C27_WorkersIndependent ==
    call.fn = "workers" =>
        /\ \A i \in 1..Len(call.w) :
              call.w[i].at = "done" =>
                  call.w[i].result = filter_message(flt, call.w[i].message, now, utcoffset)
        /\ \A i, j \in 1..Len(call.w) : i # j => Held(i) \cap Held(j) = {}

\* one worker has accepted a monthly salary while another, given the same
\* text, is in the middle of normalising its own
C27_Witness ==
    /\ call.fn = "workers"
    /\ call.w[1].at = "done"
    /\ call.w[1].result = "accept"
    /\ call.w[1].salaries # <<>>
    /\ call.w[2].message = call.w[1].message
    /\ call.w[2].at = "n_max"

====
